---- MODULE Spec2Model ----
(***************************************************************************)
(* Model of the AMF0/AMF3 codec of node-amf: lib/write.js (write,          *)
(* writeAmf3...), lib/read.js (read, readAmf3...), lib/utils/u29.js       *)
(* (readU29) and the helpers amf.encode / amf.decode of index.js.          *)
(*                                                                         *)
(* JavaScript values are records [t, n, s]; objects with identity live in  *)
(* a heap (a sequence of nodes) and are named by their index.  Strings are *)
(* sequences of code points, buffers are sequences of bytes.               *)
(***************************************************************************)
EXTENDS Integers, Sequences, FiniteSets, TLC

VARIABLES pc, heap, value, buffer, wire, winfo, rinfo,
          thePacket, theOptions, encoded, decoded, reencoded

pvars == <<thePacket, theOptions, encoded, decoded, reencoded>>
vars == <<pc, heap, value, buffer, wire, winfo, rinfo, pvars>>

(***************************************************************************)
(* Bounds of the model.                                                    *)
(***************************************************************************)
IntDelta == 1
MaxRepeat == 3
MaxPad == 2

(***************************************************************************)
(* lib/constants.js: the AMF3 markers.                                     *)
(***************************************************************************)
kUndefinedType == 0
kNullType == 1
kFalseType == 2
kTrueType == 3
kIntegerType == 4
kDoubleType == 5
kStringType == 6
kAvmPlusXmlType == 7
kDateType == 8
kArrayType == 9
kObjectType == 10
kXMLType == 11
kByteArrayType == 12

\* lib/constants.js: the AMF0 markers
amf0Types_kNumberType == 0
amf0Types_kBooleanType == 1
amf0Types_kStringType == 2
amf0Types_kObjectType == 3
amf0Types_kNullType == 5
amf0Types_kUndefinedType == 6
amf0Types_kReferenceType == 7
amf0Types_kECMAArrayType == 8
amf0Types_kObjectEndType == 9
amf0Types_kStrictArrayType == 10
amf0Types_kDateType == 11
amf0Types_kTypedObjectType == 16
amf0Types_kAvmPlusObjectType == 17

\* amf.encode: Buffer.alloc(options.size || 1024 * 1024)
DefaultEncodeSize == 1048576

(***************************************************************************)
(* JavaScript values.                                                      *)
(***************************************************************************)
Val(t, n, s) == [t |-> t, n |-> n, s |-> s]
Undef == Val("undefined", 0, <<>>)
Null == Val("null", 0, <<>>)
Bool(b) == Val("boolean", IF b THEN 1 ELSE 0, <<>>)
Num(n) == Val("number", n, <<>>)
\* a number that is not an integer of the modelled range: its 8 bytes
Dbl(bytes) == Val("double", 0, bytes)
Str(s) == Val("string", 0, s)
Ref(id) == Val("ref", id, <<>>)

Min(a, b) == IF a < b THEN a ELSE b
Max(a, b) == IF a > b THEN a ELSE b

(***************************************************************************)
(* Buffer primitives of Node.js, on a byte sequence (index = offset + 1).  *)
(***************************************************************************)
Zeros(n) == IF n <= 0 THEN <<>> ELSE SubSeq([i \in 1..n |-> 0], 1, n)

\* the bytes of buf with the byte at offset pos replaced (zero filled gap)
SetAt(buf, pos, b) ==
  IF pos < Len(buf)
  THEN [buf EXCEPT ![pos + 1] = b]
  ELSE buf \o Zeros(pos - Len(buf)) \o <<b>>

\* info.offset += n; info.byteLength += n
bytesUsed(info, n) ==
  IF info.err # "" THEN info
  ELSE [info EXCEPT !.offset = @ + n, !.byteLength = @ + n]

Fail(info, msg) == IF info.err = "" THEN [info EXCEPT !.err = msg] ELSE info

\* buffer.writeUInt8(b, pos): RangeError beyond the end of the buffer
writeUInt8(w, b, pos) ==
  IF w.err # "" THEN w
  ELSE IF pos >= w.cap \/ b < 0 \/ b > 255 THEN Fail(w, "out of range")
  ELSE [w EXCEPT !.buf = SetAt(@, pos, b)]

\* the bytes of buf with bytes placed at offset pos (zero filled gap)
PutBytes(buf, pos, bytes) ==
  IF bytes = <<>> THEN buf
  ELSE SubSeq(buf, 1, Min(pos, Len(buf))) \o Zeros(pos - Len(buf)) \o bytes
       \o SubSeq(buf, pos + Len(bytes) + 1, Len(buf))

\* buffer.writeUInt16BE(v, pos)
writeUInt16BE(w, v, pos) ==
  IF w.err # "" THEN w
  ELSE IF pos + 2 > w.cap \/ v < 0 \/ v > 65535 THEN Fail(w, "out of range")
  ELSE [w EXCEPT !.buf = PutBytes(@, pos, <<v \div 256, v % 256>>)]

\* the four bytes of a 32-bit integer, two's complement
Int32Bytes(v) ==
  <<(v \div 16777216) % 256, (v \div 65536) % 256, (v \div 256) % 256, v % 256>>

\* buffer.writeUInt32BE(v, pos) and buffer.writeInt32BE(v, pos)
writeUInt32BE(w, v, pos) ==
  IF w.err # "" THEN w
  ELSE IF pos + 4 > w.cap \/ v < 0 THEN Fail(w, "out of range")
  ELSE [w EXCEPT !.buf = PutBytes(@, pos, Int32Bytes(v))]

writeInt32BE(w, v, pos) ==
  IF w.err # "" THEN w
  ELSE IF pos + 4 > w.cap THEN Fail(w, "out of range")
  ELSE [w EXCEPT !.buf = PutBytes(@, pos, Int32Bytes(v))]

\* buffer.readUInt16BE(pos), buffer.readInt32BE(pos), buffer.readUInt32BE(pos)
\* within the buffer (the callers raise the RangeError beyond it)
UInt16At(b, pos) == b[pos + 1] * 256 + b[pos + 2]
Int32At(b, pos) ==
  (IF b[pos + 1] >= 128 THEN b[pos + 1] - 256 ELSE b[pos + 1]) * 16777216
    + b[pos + 2] * 65536 + b[pos + 3] * 256 + b[pos + 4]

(***************************************************************************)
(* IEEE-754 binary64, big endian, for the integer-valued numbers of the    *)
(* model (|n| < 2^31).                                                     *)
(***************************************************************************)
RECURSIVE ToBits(_, _)
\* the low k bits of n, most significant first
ToBits(n, k) == IF k = 0 THEN <<>> ELSE ToBits(n \div 2, k - 1) \o <<n % 2>>

RECURSIVE FromBits(_)
FromBits(bits) ==
  IF bits = <<>> THEN 0
  ELSE 2 * FromBits(SubSeq(bits, 1, Len(bits) - 1)) + bits[Len(bits)]

RECURSIVE Log2(_)
Log2(a) == IF a <= 1 THEN 0 ELSE 1 + Log2(a \div 2)

RECURSIVE PackBytes(_)
PackBytes(bits) ==
  IF bits = <<>> THEN <<>>
  ELSE <<FromBits(SubSeq(bits, 1, 8))>> \o PackBytes(SubSeq(bits, 9, Len(bits)))

RECURSIVE UnpackBytes(_)
UnpackBytes(bytes) ==
  IF bytes = <<>> THEN <<>>
  ELSE ToBits(Head(bytes), 8) \o UnpackBytes(Tail(bytes))

DoubleBytes(n) ==
  LET a == IF n < 0 THEN 0 - n ELSE n
      e == Log2(a)
  IN IF a = 0 THEN Zeros(8)
     ELSE PackBytes(<<IF n < 0 THEN 1 ELSE 0>> \o ToBits(1023 + e, 11)
                    \o ToBits(a - 2^e, e) \o Zeros(52 - e))

\* the number held by 8 bytes
DoubleValue(bytes) ==
  LET bits == UnpackBytes(bytes)
      sign == bits[1]
      ex == FromBits(SubSeq(bits, 2, 12))
      e == ex - 1023
      mant == SubSeq(bits, 13, 64)
  IN IF ex = 0 /\ mant = Zeros(52) THEN Num(0)
     ELSE IF e >= 0 /\ e <= 30 /\ SubSeq(mant, e + 1, 52) = Zeros(52 - e)
          THEN Num((IF sign = 1 THEN -1 ELSE 1) * (2^e + FromBits(SubSeq(mant, 1, e))))
          ELSE Dbl(bytes)

\* buffer.writeDoubleBE(n, pos)
writeDoubleBE(w, v, pos) ==
  IF w.err # "" THEN w
  ELSE IF pos + 8 > w.cap THEN Fail(w, "out of range")
  ELSE [w EXCEPT !.buf = PutBytes(@, pos, IF v.t = "double" THEN v.s ELSE DoubleBytes(v.n))]

(***************************************************************************)
(* Strings: UTF-8 as Buffer.byteLength / buffer.write / buffer.toString    *)
(* compute it, for code points below 0x10000.                              *)
(***************************************************************************)
Utf8Char(c) ==
  IF c < 128 THEN <<c>>
  ELSE IF c < 2048 THEN <<192 + (c \div 64), 128 + (c % 64)>>
  ELSE <<224 + (c \div 4096), 128 + ((c \div 64) % 64), 128 + (c % 64)>>

\* a string of code points below 0x80 and its UTF-8 bytes are the same
\* sequence
IsAscii(s) == \A i \in 1..Len(s) : s[i] < 128

RECURSIVE Utf8(_)
Utf8(s) ==
  CASE IsAscii(s) -> s
    [] OTHER -> Utf8Char(Head(s)) \o Utf8(Tail(s))

IsCont(b) == b >= 128 /\ b < 192

\* buffer.toString('utf8'): ill-formed input decodes to U+FFFD
RECURSIVE Utf8Decode(_)
Utf8Decode(b) ==
  IF IsAscii(b) THEN b
  ELSE IF b[1] < 128 THEN <<b[1]>> \o Utf8Decode(Tail(b))
  ELSE IF b[1] >= 194 /\ b[1] < 224 /\ Len(b) >= 2 /\ IsCont(b[2])
    THEN <<(b[1] - 192) * 64 + (b[2] - 128)>> \o Utf8Decode(SubSeq(b, 3, Len(b)))
  ELSE IF b[1] >= 224 /\ b[1] < 240 /\ Len(b) >= 2 /\ IsCont(b[2])
          /\ (b[1] = 224 => b[2] >= 160) /\ (b[1] = 237 => b[2] < 160)
    THEN IF Len(b) >= 3 /\ IsCont(b[3])
         THEN <<(b[1] - 224) * 4096 + (b[2] - 128) * 64 + (b[3] - 128)>>
              \o Utf8Decode(SubSeq(b, 4, Len(b)))
         ELSE <<65533>> \o Utf8Decode(SubSeq(b, 3, Len(b)))
  ELSE <<65533>> \o Utf8Decode(Tail(b))

RECURSIVE Utf8Fit(_, _)
\* buffer.write(string, offset, length): only whole characters that fit
Utf8Fit(s, room) ==
  IF IsAscii(s) THEN SubSeq(s, 1, Min(Len(s), room))
  ELSE IF Len(Utf8Char(Head(s))) > room THEN <<>>
  ELSE Utf8Char(Head(s)) \o Utf8Fit(Tail(s), room - Len(Utf8Char(Head(s))))

\* buffer.write(str, pos, length, 'utf8')
bufferWrite(w, s, pos) ==
  IF w.err # "" THEN w
  ELSE [w EXCEPT !.buf = PutBytes(@, pos, Utf8Fit(s, w.cap - pos))]

\* source.copy(buffer, pos)
bufferCopy(w, bytes, pos) ==
  IF w.err # "" THEN w
  ELSE [w EXCEPT !.buf = PutBytes(@, pos, SubSeq(bytes, 1, Min(Len(bytes), Max(0, w.cap - pos))))]

RECURSIVE IndexFrom(_, _, _)
IndexFrom(seq, x, i) ==
  IF i > Len(seq) THEN -1
  ELSE IF seq[i] = x THEN i - 1
  ELSE IndexFrom(seq, x, i + 1)

\* for (i = 0; i < refs.length; i++) if (refs[i] === x): the first match or -1
IndexOf(seq, x) == IndexFrom(seq, x, 1)

IsDigit(c) == c >= 48 /\ c <= 57

RECURSIVE ParseDigits(_, _)
ParseDigits(s, acc) ==
  IF s = <<>> \/ ~IsDigit(Head(s)) THEN acc
  ELSE ParseDigits(Tail(s), 10 * acc + (Head(s) - 48))

\* parseInt(key): the leading decimal digits, NaN (here -1) without any.
\* Keys of the model carry no white space, sign or 0x prefix.
parseInt(s) ==
  IF s = <<>> \/ ~IsDigit(Head(s)) THEN -1 ELSE ParseDigits(s, 0)

(***************************************************************************)
(* Heap nodes: the objects with identity that a value can refer to.        *)
(*   object  name = __className__, flag = __externalizable__, props        *)
(*   array   dense elements, props = the other own properties              *)
(*   date    num = getTime()                                               *)
(*   buffer  data                                                          *)
(*   xml     name = toString(), flag = (__type__ = 'XMLDocument')          *)
(* props is a sequence of <<key, value>> in for-in order.                  *)
(***************************************************************************)
Node(k, name, flag, props, dense, num, data) ==
  [k |-> k, name |-> name, flag |-> flag, props |-> props, dense |-> dense,
   num |-> num, data |-> data]
ObjectNode(className, props) == Node("object", className, FALSE, props, <<>>, 0, <<>>)
ExternalizableNode(className) == Node("object", className, TRUE, <<>>, <<>>, 0, <<>>)
ArrayNode(dense, props) == Node("array", <<>>, FALSE, props, dense, 0, <<>>)
DateNode(ms) == Node("date", <<>>, FALSE, <<>>, <<>>, ms, <<>>)
BufferNode(data) == Node("buffer", <<>>, FALSE, <<>>, <<>>, 0, data)
XmlNode(str, isDocument) == Node("xml", str, isDocument, <<>>, <<>>, 0, <<>>)

(***************************************************************************)
(* lib/write.js                                                            *)
(***************************************************************************)
\* an info object that still holds the tables of an earlier call
NewWriteInfo_staleTables(cap, version) ==
  [buf |-> <<>>, cap |-> cap, offset |-> 0, byteLength |-> 0, version |-> version,
   type |-> -1,
   amf3StringReferences |-> <<<<110, 115>>>>, amf3ObjectReferences |-> <<1>>,
   amf3TraitReferences |-> <<>>, references |-> <<>>, err |-> "", log |-> <<>>]

\* the writer's info object, the buffer it writes to, the pending
\* exception (err) and the record of what was written (log)
NewWriteInfo(cap, version) ==
  [buf |-> <<>>, cap |-> cap, offset |-> 0, byteLength |-> 0, version |-> version,
   type |-> -1,
   amf3StringReferences |-> <<>>, amf3ObjectReferences |-> <<>>,
   amf3TraitReferences |-> <<>>, references |-> <<>>, err |-> "", log |-> <<>>]

Event(ev, v, at, end) == [ev |-> ev, v |-> v, at |-> at, end |-> end]

Logged(w0, w1, ev, v) ==
  IF w0.err # "" THEN w1
  ELSE [w1 EXCEPT !.log = Append(@, Event(ev, v, w0.offset, w1.offset))]

\* getTypeAmf3 with the unsigned 29-bit limit as the upper bound of Integer
getTypeAmf3_unsignedLimit(h, v) ==
  CASE v.t = "null" -> kNullType
    [] v.t = "undefined" -> kUndefinedType
    [] v.t = "boolean" -> IF v.n = 1 THEN kTrueType ELSE kFalseType
    [] v.t = "number" ->
         IF v.n >= -268435456 /\ v.n <= 536870911 THEN kIntegerType ELSE kDoubleType
    [] v.t = "double" -> kDoubleType
    [] v.t = "string" -> kStringType
    [] v.t = "ref" ->
         CASE h[v.n].k = "date" -> kDateType
           [] h[v.n].k = "buffer" -> kByteArrayType
           [] h[v.n].k = "array" -> kArrayType
           [] h[v.n].k = "xml" -> IF h[v.n].flag THEN kAvmPlusXmlType ELSE kXMLType
           [] OTHER -> kObjectType

getTypeAmf3(h, v) ==
  CASE v.t = "null" -> kNullType
    [] v.t = "undefined" -> kUndefinedType
    [] v.t = "boolean" -> IF v.n = 1 THEN kTrueType ELSE kFalseType
    [] v.t = "number" ->
         IF v.n >= -268435456 /\ v.n <= 268435455 THEN kIntegerType ELSE kDoubleType
    [] v.t = "double" -> kDoubleType
    [] v.t = "string" -> kStringType
    [] v.t = "ref" ->
         CASE h[v.n].k = "date" -> kDateType
           [] h[v.n].k = "buffer" -> kByteArrayType
           [] h[v.n].k = "array" -> kArrayType
           [] h[v.n].k = "xml" -> IF h[v.n].flag THEN kAvmPlusXmlType ELSE kXMLType
           [] OTHER -> kObjectType

\* writeAmf3Integer with seven data bits in the fourth byte
writeAmf3Integer_sevenBits(w, v) ==
  IF w.err # "" THEN w
  ELSE IF v < 0 \/ v >= 536870912 THEN Fail(w, "Integer out of range")
  ELSE IF v < 128 THEN bytesUsed(writeUInt8(w, v, w.offset), 1)
  ELSE IF v < 16384 THEN
    bytesUsed(writeUInt8(writeUInt8(w, 128 + ((v \div 128) % 128), w.offset),
                         v % 128, w.offset + 1), 2)
  ELSE IF v < 2097152 THEN
    bytesUsed(writeUInt8(writeUInt8(writeUInt8(w,
                128 + ((v \div 16384) % 128), w.offset),
                128 + ((v \div 128) % 128), w.offset + 1),
                v % 128, w.offset + 2), 3)
  ELSE
    bytesUsed(writeUInt8(writeUInt8(writeUInt8(writeUInt8(w,
                128 + ((v \div 2097152) % 128), w.offset),
                128 + ((v \div 16384) % 128), w.offset + 1),
                128 + ((v \div 128) % 128), w.offset + 2),
                v % 128, w.offset + 3), 4)

writeAmf3Integer(w, v) ==
  IF w.err # "" THEN w
  ELSE IF v < 0 \/ v >= 536870912 THEN Fail(w, "Integer out of range")
  ELSE IF v < 128 THEN bytesUsed(writeUInt8(w, v, w.offset), 1)
  ELSE IF v < 16384 THEN
    bytesUsed(writeUInt8(writeUInt8(w, 128 + ((v \div 128) % 128), w.offset),
                         v % 128, w.offset + 1), 2)
  ELSE IF v < 2097152 THEN
    bytesUsed(writeUInt8(writeUInt8(writeUInt8(w,
                128 + ((v \div 16384) % 128), w.offset),
                128 + ((v \div 128) % 128), w.offset + 1),
                v % 128, w.offset + 2), 3)
  ELSE
    bytesUsed(writeUInt8(writeUInt8(writeUInt8(writeUInt8(w,
                128 + ((v \div 4194304) % 128), w.offset),
                128 + ((v \div 32768) % 128), w.offset + 1),
                128 + ((v \div 256) % 128), w.offset + 2),
                v % 256, w.offset + 3), 4)

writeAmf3Double(w, v) == bytesUsed(writeDoubleBE(w, v, w.offset), 8)

\* writeAmf3String without the reference table: every occurrence inline
writeAmf3String_noTable(w, s) ==
  LET byteLength == Len(Utf8(s))
      head == writeAmf3Integer(w, 2 * byteLength + 1)
      w1 == IF w.err # "" THEN w
            ELSE IF s = <<>> THEN writeAmf3Integer(w, 1)
            ELSE bytesUsed(bufferWrite(head, s, head.offset), byteLength)
  IN Logged(w, w1, "string", Str(s))

writeAmf3String(w, s) ==
  LET i == IndexOf(w.amf3StringReferences, s)
      pushed == [w EXCEPT !.amf3StringReferences = Append(@, s)]
      byteLength == Len(Utf8(s))
      Inline(head) == bytesUsed(bufferWrite(head, s, head.offset), byteLength)
  IN Logged(w,
            IF w.err # "" THEN w
            ELSE IF i >= 0 THEN writeAmf3Integer(w, 2 * i)
            ELSE IF s = <<>> THEN writeAmf3Integer(w, 1)
            ELSE Inline(writeAmf3Integer(pushed, 2 * byteLength + 1)),
            "string", Str(s))

\* the reference branch and the table push shared by every complex writer:
\*   for (i...) if (info.amf3ObjectReferences[i] === value) { write i << 1 }
\*   info.amf3ObjectReferences.push(value)
PushObject(w, id) == [w EXCEPT !.amf3ObjectReferences = Append(@, id)]

\* writeAmf3Date without the search of info.amf3ObjectReferences
writeAmf3Date_alwaysInline(h, w, id) ==
  LET head == writeAmf3Integer(PushObject(w, id), 1)
  IN IF w.err # "" THEN w
     ELSE bytesUsed(writeDoubleBE(head, Num(h[id].num), head.offset), 8)

writeAmf3Date(h, w, id) ==
  LET i == IndexOf(w.amf3ObjectReferences, id)
      Inline(head) == bytesUsed(writeDoubleBE(head, Num(h[id].num), head.offset), 8)
  IN IF w.err # "" THEN w
     ELSE IF i >= 0 THEN writeAmf3Integer(w, 2 * i)
     ELSE Inline(writeAmf3Integer(PushObject(w, id), 1))

writeAmf3XML(h, w, id, isAvmPlus) ==
  LET i == IndexOf(w.amf3ObjectReferences, id)
      xmlStr == h[id].name
      byteLength == Len(Utf8(xmlStr))
      Inline(head) == bytesUsed(bufferWrite(head, xmlStr, head.offset), byteLength)
  IN IF w.err # "" THEN w
     ELSE IF i >= 0 THEN writeAmf3Integer(w, 2 * i)
     ELSE Inline(writeAmf3Integer(PushObject(w, id), 2 * byteLength + 1))

writeAmf3ByteArray(h, w, id) ==
  LET i == IndexOf(w.amf3ObjectReferences, id)
      Inline(head) ==
        bytesUsed(bufferCopy(head, h[id].data, head.offset), Len(h[id].data))
  IN IF w.err # "" THEN w
     ELSE IF i >= 0 THEN writeAmf3Integer(w, 2 * i)
     ELSE Inline(writeAmf3Integer(PushObject(w, id), 2 * Len(h[id].data) + 1))

\* the keys of an array that writeAmf3Array keeps:
\*   !(parseInt(key) >= 0 && parseInt(key) < length)
RECURSIVE associativeKeys(_, _)
associativeKeys(props, length) ==
  IF props = <<>> THEN <<>>
  ELSE (IF ~(parseInt(Head(props)[1]) >= 0 /\ parseInt(Head(props)[1]) < length)
        THEN <<Head(props)>> ELSE <<>>)
       \o associativeKeys(Tail(props), length)

RECURSIVE writeAmf3(_, _, _)
RECURSIVE writeAssociative(_, _, _)
RECURSIVE writeDense(_, _, _)
RECURSIVE writePropertyNames(_, _)
RECURSIVE writePropertyValues(_, _, _)

\* for (i...) { writeAmf3String(key); writeAmf3(value[key]) }
writeAssociative(h, w, props) ==
  IF props = <<>> \/ w.err # "" THEN w
  ELSE writeAssociative(h,
         writeAmf3(h, writeAmf3String(w, Head(props)[1]), Head(props)[2]),
         Tail(props))

\* for (i = 0; i < length; i++) writeAmf3(buffer, value[i], info)
writeDense(h, w, dense) ==
  IF dense = <<>> \/ w.err # "" THEN w
  ELSE writeDense(h, writeAmf3(h, w, Head(dense)), Tail(dense))

writeAmf3Array(h, w, id) ==
  LET i == IndexOf(w.amf3ObjectReferences, id)
      length == Len(h[id].dense)
      keys == associativeKeys(h[id].props, length)
      head == writeAmf3Integer(PushObject(w, id), 2 * length + 1)
      assoc == writeAmf3String(writeAssociative(h, head, keys), <<>>)
  IN IF w.err # "" THEN w
     ELSE IF i >= 0 THEN writeAmf3Integer(w, 2 * i)
     ELSE writeDense(h, assoc, h[id].dense)

\* for (i...) writeAmf3String(buffer, propertyNames[i], info)
writePropertyNames(w, props) ==
  IF props = <<>> \/ w.err # "" THEN w
  ELSE writePropertyNames(writeAmf3String(w, Head(props)[1]), Tail(props))

\* for (i...) writeAmf3(buffer, value[propertyNames[i]], info)
writePropertyValues(h, w, props) ==
  IF props = <<>> \/ w.err # "" THEN w
  ELSE writePropertyValues(h, writeAmf3(h, w, Head(props)[2]), Tail(props))

writeAmf3Object(h, w, id) ==
  LET i == IndexOf(w.amf3ObjectReferences, id)
      className == h[id].name
      isDynamic == TRUE
      isExternalizable == h[id].flag
      propertyNames == IF isExternalizable THEN <<>> ELSE h[id].props
      header == IF isExternalizable THEN 3 + 4
                ELSE 3 + (IF isDynamic THEN 8 ELSE 0) + 16 * Len(propertyNames)
      Valued(valued) == IF isDynamic THEN writeAmf3String(valued, <<>>) ELSE valued
      Named(named) ==
        IF isExternalizable THEN named
        ELSE Valued(writePropertyValues(h, writePropertyNames(named, propertyNames),
                                        propertyNames))
  IN IF w.err # "" THEN w
     ELSE IF i >= 0 THEN writeAmf3Integer(w, 2 * i)
     ELSE Named(writeAmf3String(writeAmf3Integer(PushObject(w, id), header), className))

writeAmf3(h, w, v) ==
  LET type == getTypeAmf3(h, v)
      marked == bytesUsed(writeUInt8(w, type, w.offset), 1)
  IN IF w.err # "" THEN w
     ELSE Logged(w,
            CASE type = kIntegerType -> writeAmf3Integer(marked, v.n)
              [] type = kDoubleType -> writeAmf3Double(marked, v)
              [] type = kStringType -> writeAmf3String(marked, v.s)
              [] type \in {kXMLType, kAvmPlusXmlType} ->
                   writeAmf3XML(h, marked, v.n, type = kAvmPlusXmlType)
              [] type = kDateType -> writeAmf3Date(h, marked, v.n)
              [] type = kArrayType -> writeAmf3Array(h, marked, v.n)
              [] type = kObjectType -> writeAmf3Object(h, marked, v.n)
              [] type = kByteArrayType -> writeAmf3ByteArray(h, marked, v.n)
              [] OTHER -> marked,
            "value", v)

sClassNameKey == <<95, 95, 99, 108, 97, 115, 115, 78, 97, 109, 101, 95, 95>>
sAmf3Key == <<95, 95, 97, 109, 102, 51, 95, 95>>
sExternalizableKey ==
  <<95, 95, 101, 120, 116, 101, 114, 110, 97, 108, 105, 122, 97, 98, 108, 101, 95, 95>>
sEndObject == <<101, 110, 100, 79, 98, 106, 101, 99, 116>>

\* write.js: var END_OBJECT = { endObject: true }. The writer is given the
\* heap of the caller with this object appended (WriterHeap), so that the
\* sentinel is the last object of its heap.
EndObjectNode == ObjectNode(<<>>, <<<<sEndObject, Bool(TRUE)>>>>)
WriterHeap(h) == Append(h, EndObjectNode)
write_END_OBJECT(h) == Ref(Len(h))

\* a value in a condition: if (value.__amf3__)
Truthy(v) ==
  CASE v.t = "boolean" -> v.n = 1
    [] v.t = "number" -> v.n # 0
    [] v.t = "string" -> v.s # <<>>
    [] v.t \in {"double", "ref"} -> TRUE
    [] OTHER -> FALSE

\* value.__amf3__ (createAmf3XML sets it on every XML wrapper)
Amf3Flag(node) ==
  \/ node.k = "xml"
  \/ \E i \in 1..Len(node.props) :
       node.props[i][1] = sAmf3Key /\ Truthy(node.props[i][2])

RECURSIVE ToDecimal(_)
\* String(n) of an index
ToDecimal(n) ==
  IF n < 10 THEN <<48 + n>> ELSE ToDecimal(n \div 10) \o <<48 + (n % 10)>>

RECURSIVE IndexEntries(_, _)
\* the index keys of an array with their elements, holes left out
IndexEntries(items, i) ==
  IF i > Len(items) THEN <<>>
  ELSE (IF items[i] = Val("hole", 0, <<>>) THEN <<>>
        ELSE <<<<ToDecimal(i - 1), items[i]>>>>)
       \o IndexEntries(items, i + 1)

\* Object.keys(object) with object[key]: index keys first; the class name
\* and the externalizable flag of a node come after its other properties
ObjectKeys(node) ==
  CASE node.k = "array" -> IndexEntries(node.dense, 1) \o node.props
    [] node.k = "buffer" ->
         IndexEntries([i \in 1..Len(node.data) |-> Num(node.data[i])], 1) \o node.props
    [] node.k = "object" ->
         node.props
           \o (IF node.name # <<>> THEN <<<<sClassNameKey, Str(node.name)>>>> ELSE <<>>)
           \o (IF node.flag THEN <<<<sExternalizableKey, Bool(TRUE)>>>> ELSE <<>>)
    [] OTHER -> node.props

\* isReference(value, info)
write_isReference(w, v) == v.t = "ref" /\ IndexOf(w.references, v.n) >= 0

\* getType without the check of the AMF3 marker of an object
getType_noAmf3Flag(h, w, v) ==
  IF v.t = "null" THEN amf0Types_kNullType
  ELSE IF v.t = "undefined" THEN amf0Types_kUndefinedType
  ELSE IF v = write_END_OBJECT(h) THEN amf0Types_kObjectEndType
  ELSE IF w.version = 3 THEN getTypeAmf3(h, v)
  ELSE CASE v.t \in {"number", "double"} -> amf0Types_kNumberType
         [] v.t = "boolean" -> amf0Types_kBooleanType
         [] v.t = "string" -> amf0Types_kStringType
         [] v.t = "ref" ->
              IF write_isReference(w, v) THEN amf0Types_kReferenceType
              ELSE IF h[v.n].k = "array" THEN amf0Types_kECMAArrayType
              ELSE amf0Types_kObjectType

getType(h, w, v) ==
  IF v.t = "null" THEN amf0Types_kNullType
  ELSE IF v.t = "undefined" THEN amf0Types_kUndefinedType
  ELSE IF v = write_END_OBJECT(h) THEN amf0Types_kObjectEndType
  ELSE IF w.version = 3 THEN getTypeAmf3(h, v)
  ELSE CASE v.t \in {"number", "double"} -> amf0Types_kNumberType
         [] v.t = "boolean" -> amf0Types_kBooleanType
         [] v.t = "string" -> amf0Types_kStringType
         [] v.t = "ref" ->
              IF write_isReference(w, v) THEN amf0Types_kReferenceType
              ELSE IF h[v.n].k = "array" THEN amf0Types_kECMAArrayType
              ELSE IF Amf3Flag(h[v.n]) THEN amf0Types_kAvmPlusObjectType
              ELSE amf0Types_kObjectType

writeNumber(w, v) == writeDoubleBE(bytesUsed(w, 8), v, w.offset)

writeBoolean(w, v) ==
  writeUInt8(bytesUsed(w, 1), IF Truthy(v) THEN 1 ELSE 0, w.offset)

\* the assert fails when buffer.write could not place the whole string
writeString(w, s) ==
  LET length == Len(Utf8(s))
      Body(head) ==
        IF head.err # "" THEN head
        ELSE IF Len(Utf8Fit(s, head.cap - head.offset)) # length
          THEN Fail(bytesUsed(bufferWrite(head, s, head.offset), length),
                    "failed to write entire String")
        ELSE bytesUsed(bufferWrite(head, s, head.offset), length)
  IN IF w.err # "" THEN w
     ELSE Body(bytesUsed(writeUInt16BE(w, length, w.offset), 2))

writeReference(w, v) ==
  writeUInt16BE(bytesUsed(w, 2), IndexOf(w.references, v.n), w.offset)

\* var temp = {}
NewWriteTemp == NewWriteInfo(0, 0)

\* temp.offset = info.offset; temp.references = info.references. The
\* buffer, the pending exception and the log are one for info and temp.
WriteTempAt(w, t) ==
  [t EXCEPT !.offset = w.offset, !.references = w.references,
            !.buf = w.buf, !.cap = w.cap, !.err = w.err, !.log = w.log]

\* bytesUsed(info, temp.byteLength) after a call that was given temp
AfterWriteTemp(w, t) ==
  bytesUsed([w EXCEPT !.references = t.references, !.buf = t.buf, !.err = t.err,
                      !.log = t.log],
            t.byteLength)

RECURSIVE write(_, _, _)
RECURSIVE writeObject_for(_, _, _, _)

\* the loop of writeObject over keys, then the empty key and
\* write(buffer, END_OBJECT, temp). t is temp as the previous round left it.
writeObject_for(h, w, t, keys) ==
  LET Round(wk, tv) == writeObject_for(h, AfterWriteTemp(wk, tv), tv, Tail(keys))
      Value(wk, tk) == Round(wk, write(h, WriteTempAt(wk, tk), Head(keys)[2]))
      Key(tk) == Value(AfterWriteTemp(w, tk), tk)
      EndMarker(wk, tk) ==
        AfterWriteTemp(wk, write(h, WriteTempAt(wk, tk), write_END_OBJECT(h)))
      EndKey(tk) == EndMarker(AfterWriteTemp(w, tk), tk)
  IN IF w.err # "" THEN w
     ELSE IF keys = <<>>
       THEN EndKey(writeString([WriteTempAt(w, t) EXCEPT !.byteLength = 0], <<>>))
     ELSE Key(writeString([WriteTempAt(w, t) EXCEPT !.byteLength = 0], Head(keys)[1]))

writeObject(h, w, id) ==
  IF w.err # "" THEN w
  ELSE writeObject_for(h, [w EXCEPT !.references = Append(@, id)], NewWriteTemp,
                       ObjectKeys(h[id]))

writeECMAArray(h, w, id) ==
  writeObject(h, bytesUsed(writeUInt32BE(w, Len(h[id].dense), w.offset), 4), id)

\* write(buffer, value, info)
write(h, w, v) ==
  LET type == getType(h, w, v)
      started == [w EXCEPT !.byteLength = 0]
      marked == bytesUsed(writeUInt8(started, type, started.offset), 1)
  IN IF w.err # "" THEN w
     ELSE IF w.version = 0 /\ type # amf0Types_kAvmPlusObjectType
       THEN CASE type = amf0Types_kNumberType -> writeNumber(marked, v)
              [] type = amf0Types_kBooleanType -> writeBoolean(marked, v)
              [] type = amf0Types_kStringType -> writeString(marked, v.s)
              [] type = amf0Types_kObjectType -> writeObject(h, marked, v.n)
              [] type = amf0Types_kReferenceType -> writeReference(marked, v)
              [] type = amf0Types_kECMAArrayType -> writeECMAArray(h, marked, v.n)
              [] OTHER -> marked
     ELSE writeAmf3(h, IF w.version = 0 THEN [marked EXCEPT !.version = 3] ELSE started,
                    v)

\* amf.encode(value, {objectEncoding: 3}): buf.slice(0, info.offset)
slice(w) ==
  LET n == Min(w.offset, w.cap)
  IN SubSeq(w.buf \o Zeros(n - Len(w.buf)), 1, n)

(***************************************************************************)
(* lib/read.js                                                             *)
(***************************************************************************)
\* the reader's info object, the objects it has created (heap), the value
\* of the last return statement (val), the pending exception (err) and the
\* record of the references it resolved (log)
NewReadInfo(offset, version) ==
  [offset |-> offset, byteLength |-> 0, version |-> version,
   amf3StringReferences |-> <<>>, amf3ObjectReferences |-> <<>>,
   amf3TraitReferences |-> <<>>, references |-> <<>>, heap |-> <<>>,
   val |-> Undef, err |-> "", log |-> <<>>]

Return(r, v) == IF r.err # "" THEN r ELSE [r EXCEPT !.val = v]

RefEvent(ev, idx, len, v) == [ev |-> ev, idx |-> idx, len |-> len, v |-> v]

Resolved(r, ev, idx, len, v) == [r EXCEPT !.log = Append(@, RefEvent(ev, idx, len, v))]

\* buffer.readUInt8(info.offset) then bytesUsed(info, 1)
readUInt8(b, r) ==
  IF r.err # "" THEN r
  ELSE IF r.offset >= Len(b) THEN Fail(r, "out of range")
  ELSE bytesUsed(Return(r, Num(b[r.offset + 1])), 1)

\* the bytes of b from offset start up to (not including) end, clamped
Bytes(b, start, end) == SubSeq(b, start + 1, Min(end, Len(b)))

readAmf3Integer(b, r) ==
  LET Fourth(res3, r4) ==
        IF r4.err # "" THEN r4 ELSE Return(r4, Num(res3 + r4.val.n))
      Third(res2, r3) ==
        IF r3.err # "" THEN r3
        ELSE IF r3.val.n < 128 THEN Return(r3, Num(res2 + r3.val.n))
        ELSE Fourth((res2 + (r3.val.n % 128)) * 256, readUInt8(b, r3))
      Second(res1, r2) ==
        IF r2.err # "" THEN r2
        ELSE IF r2.val.n < 128 THEN Return(r2, Num(res1 + r2.val.n))
        ELSE Third((res1 + (r2.val.n % 128)) * 128, readUInt8(b, r2))
      First(r1) ==
        IF r1.err # "" \/ r1.val.n < 128 THEN r1
        ELSE Second((r1.val.n % 128) * 128, readUInt8(b, r1))
  IN First(readUInt8(b, r))

readAmf3Double(b, r) ==
  LET offset == r.offset
      r1 == bytesUsed(r, 8)
  IN IF r.err # "" THEN r
     ELSE IF offset + 8 > Len(b) THEN Fail(r1, "out of range")
     ELSE Return(r1, DoubleValue(Bytes(b, offset, offset + 8)))

\* readAmf3String without info.amf3StringReferences.push(str)
readAmf3String_noTable(b, r) ==
  LET Header(rh) ==
        LET header == rh.val.n
            isReference == header % 2 = 0
            refIndex == header \div 2
            refs == rh.amf3StringReferences
            length == header \div 2
            offset == rh.offset
            str == Utf8Decode(Bytes(b, offset, offset + length))
        IN IF rh.err # "" THEN rh
           ELSE IF isReference THEN
             IF refIndex >= Len(refs)
             THEN Fail(Resolved(rh, "string", refIndex, Len(refs), Undef),
                       "Invalid string reference")
             ELSE Return(Resolved(rh, "string", refIndex, Len(refs),
                                  Str(refs[refIndex + 1])),
                         Str(refs[refIndex + 1]))
           ELSE IF length = 0 THEN Return(rh, Str(<<>>))
           ELSE Return(bytesUsed(rh, length), Str(str))
  IN Header(readAmf3Integer(b, r))

readAmf3String(b, r) ==
  LET Header(rh) ==
        LET header == rh.val.n
            isReference == header % 2 = 0
            refIndex == header \div 2
            refs == rh.amf3StringReferences
            length == header \div 2
            offset == rh.offset
            str == Utf8Decode(Bytes(b, offset, offset + length))
        IN IF rh.err # "" THEN rh
           ELSE IF isReference THEN
             IF refIndex >= Len(refs)
             THEN Fail(Resolved(rh, "string", refIndex, Len(refs), Undef),
                       "Invalid string reference")
             ELSE Return(Resolved(rh, "string", refIndex, Len(refs),
                                  Str(refs[refIndex + 1])),
                         Str(refs[refIndex + 1]))
           ELSE IF length = 0 THEN Return(rh, Str(<<>>))
           ELSE Return([bytesUsed(rh, length) EXCEPT
                          !.amf3StringReferences = Append(@, str)], Str(str))
  IN Header(readAmf3Integer(b, r))

\* the object reference branch without the check of refIndex: an index
\* beyond the table reads undefined
ObjectReference_unchecked(rh, refIndex, msg) ==
  LET refs == rh.amf3ObjectReferences
      v == IF refIndex >= Len(refs) THEN Undef ELSE Ref(refs[refIndex + 1])
  IN Return(Resolved(rh, "object", refIndex, Len(refs), v), v)

\* the object reference branch shared by the complex readers
ObjectReference(rh, refIndex, msg) ==
  LET refs == rh.amf3ObjectReferences
  IN IF refIndex >= Len(refs)
     THEN Fail(Resolved(rh, "object", refIndex, Len(refs), Undef), msg)
     ELSE Return(Resolved(rh, "object", refIndex, Len(refs), Ref(refs[refIndex + 1])),
                 Ref(refs[refIndex + 1]))

\* a new object that is not added to info.amf3ObjectReferences
NewObject_noReference(r, node) ==
  [r EXCEPT !.heap = Append(@, node)]

\* a new object: added to the heap and to info.amf3ObjectReferences
NewObject(r, node) ==
  [r EXCEPT !.heap = Append(@, node),
            !.amf3ObjectReferences = Append(@, Len(r.heap) + 1)]

readAmf3Date(b, r) ==
  LET Header(rh) ==
        LET header == rh.val.n
            offset == rh.offset
            millis == DoubleValue(Bytes(b, offset, offset + 8))
            date == IF millis.t = "number" THEN DateNode(millis.n)
                    ELSE Node("date", <<>>, FALSE, <<>>, <<>>, 0, millis.s)
        IN IF rh.err # "" THEN rh
           ELSE IF header % 2 = 0
             THEN ObjectReference(rh, header \div 2, "Invalid date reference")
           ELSE IF offset + 8 > Len(b) THEN Fail(bytesUsed(rh, 8), "out of range")
           ELSE Return(NewObject(bytesUsed(rh, 8), date), Ref(Len(rh.heap) + 1))
  IN Header(readAmf3Integer(b, r))

readAmf3XML(b, r, isAvmPlus) ==
  LET Header(rh) ==
        LET header == rh.val.n
            length == header \div 2
            offset == rh.offset
            xmlStr == Utf8Decode(Bytes(b, offset, offset + length))
        IN IF rh.err # "" THEN rh
           ELSE IF header % 2 = 0
             THEN ObjectReference(rh, header \div 2, "Invalid XML reference")
           ELSE Return(NewObject(bytesUsed(rh, length), XmlNode(xmlStr, isAvmPlus)),
                       Ref(Len(rh.heap) + 1))
  IN Header(readAmf3Integer(b, r))

readAmf3ByteArray(b, r) ==
  LET Header(rh) ==
        LET header == rh.val.n
            length == header \div 2
            offset == rh.offset
            copied == Bytes(b, offset, offset + length)
            \* Buffer.alloc(length), then
            \* buffer.copy(byteArray, 0, offset, offset + length)
            byteArray == copied \o Zeros(length - Len(copied))
        IN IF rh.err # "" THEN rh
           ELSE IF header % 2 = 0
             THEN ObjectReference(rh, header \div 2, "Invalid ByteArray reference")
           ELSE Return(NewObject(bytesUsed(rh, length), BufferNode(byteArray)),
                       Ref(Len(rh.heap) + 1))
  IN Header(readAmf3Integer(b, r))

Hole == Val("hole", 0, <<>>)

\* a key that names an element of a JavaScript array: "0", "1", "10", ...
IsIndexKey(s) ==
  /\ s # <<>>
  /\ \A i \in 1..Len(s) : IsDigit(s[i])
  /\ (Len(s) > 1 => s[1] # 48)

RECURSIVE Holes(_)
Holes(n) == IF n <= 0 THEN <<>> ELSE <<Hole>> \o Holes(n - 1)

RECURSIVE KeyIndex(_, _, _)
KeyIndex(props, key, i) ==
  IF i > Len(props) THEN 0
  ELSE IF props[i][1] = key THEN i
  ELSE KeyIndex(props, key, i + 1)

\* object[key] = v: a present key keeps its place
SetProp(node, key, v) ==
  LET i == KeyIndex(node.props, key, 1)
  IN IF i > 0 THEN [node EXCEPT !.props[i] = <<key, v>>]
     ELSE [node EXCEPT !.props = Append(@, <<key, v>>)]

\* array[key] = v: an index key writes an element and may grow the array
ArraySet(node, key, v) ==
  LET i == parseInt(key)
  IN IF ~IsIndexKey(key) THEN SetProp(node, key, v)
     ELSE IF i < Len(node.dense) THEN [node EXCEPT !.dense[i + 1] = v]
     ELSE [node EXCEPT !.dense = @ \o Holes(i - Len(@)) \o <<v>>]

RECURSIVE readAmf3(_, _, _)
RECURSIVE readAssociative(_, _, _)
RECURSIVE readDense(_, _, _, _)
RECURSIVE readSealed(_, _, _, _)
RECURSIVE readDynamic(_, _, _)

\* key = readAmf3String(); while (key !== '') { array[key] = readAmf3();
\* key = readAmf3String() }
readAssociative(b, r, id) ==
  LET Value(key, rv) ==
        IF rv.err # "" THEN rv
        ELSE readAssociative(b, [rv EXCEPT !.heap[id] = ArraySet(@, key, rv.val)], id)
      Key(rk) ==
        IF rk.err # "" \/ rk.val.s = <<>> THEN rk
        ELSE Value(rk.val.s, readAmf3(b, rk, -1))
  IN Key(readAmf3String(b, r))

\* for (i = 0; i < length; i++) array.push(readAmf3(buffer, info))
readDense(b, r, id, n) ==
  LET Push(rv) ==
        IF rv.err # "" THEN rv
        ELSE readDense(b, [rv EXCEPT !.heap[id].dense = Append(@, rv.val)], id, n - 1)
  IN IF n = 0 \/ r.err # "" THEN r ELSE Push(readAmf3(b, r, -1))

readAmf3Array(b, r) ==
  LET Header(rh) ==
        LET header == rh.val.n
            length == header \div 2
            array == Len(rh.heap) + 1
        IN IF rh.err # "" THEN rh
           ELSE IF header % 2 = 0
             THEN ObjectReference(rh, header \div 2, "Invalid array reference")
           ELSE Return(readDense(b, readAssociative(b,
                         NewObject(rh, ArrayNode(<<>>, <<>>)), array), array, length),
                       Ref(array))
  IN Header(readAmf3Integer(b, r))

\* for (i...) object[propertyNames[i]] = readAmf3(buffer, info)
readSealed(b, r, id, names) ==
  LET Set(rv) ==
        IF rv.err # "" THEN rv
        ELSE readSealed(b, [rv EXCEPT !.heap[id] = SetProp(@, Head(names), rv.val)],
                        id, Tail(names))
  IN IF names = <<>> \/ r.err # "" THEN r ELSE Set(readAmf3(b, r, -1))

\* key = readAmf3String(); while (key !== '') { object[key] = readAmf3(); ... }
readDynamic(b, r, id) ==
  LET Value(key, rv) ==
        IF rv.err # "" THEN rv
        ELSE readDynamic(b, [rv EXCEPT !.heap[id] = SetProp(@, key, rv.val)], id)
      Key(rk) ==
        IF rk.err # "" \/ rk.val.s = <<>> THEN rk
        ELSE Value(rk.val.s, readAmf3(b, rk, -1))
  IN Key(readAmf3String(b, r))

RECURSIVE readPropertyNames(_, _, _)
\* for (i = 0; i < traitCount; i++) trait.propertyNames.push(readAmf3String())
\* the names read so far are kept in r.val.s
readPropertyNames(b, r, n) ==
  LET Push(rn) ==
        IF rn.err # "" THEN rn
        ELSE readPropertyNames(b, Return(rn, Val("names", 0, Append(r.val.s, rn.val.s))),
                               n - 1)
  IN IF n = 0 \/ r.err # "" THEN r ELSE Push(readAmf3String(b, r))

Trait(className, propertyNames, isExternalizable, isDynamic) ==
  [className |-> className, propertyNames |-> propertyNames,
   isExternalizable |-> isExternalizable, isDynamic |-> isDynamic]

readAmf3Object(b, r) ==
  LET \* the object of a trait: object.__className__ = className (and
      \* object.__externalizable__ = true), then its properties
      Instance(rt, trait) ==
        LET object == Len(rt.heap) + 1
            r1 == NewObject(rt, Node("object", trait.className, trait.isExternalizable,
                                     <<>>, <<>>, 0, <<>>))
        IN IF trait.isExternalizable THEN Return(r1, Ref(object))
           ELSE IF trait.isDynamic
             THEN Return(readDynamic(b, readSealed(b, r1, object, trait.propertyNames),
                                     object), Ref(object))
           ELSE Return(readSealed(b, r1, object, trait.propertyNames), Ref(object))
      Inline(rn, trait) ==
        IF rn.err # "" THEN rn
        ELSE Instance([rn EXCEPT !.amf3TraitReferences = Append(@, trait)], trait)
      Names(header, className, rn) ==
        Inline(rn, Trait(className, rn.val.s,
                         (header \div 4) % 2 = 1, (header \div 8) % 2 = 1))
      ClassName(header, rc) ==
        IF rc.err # "" THEN rc
        ELSE Names(header, rc.val.s,
                   readPropertyNames(b, Return(rc, Val("names", 0, <<>>)), header \div 16))
      Header(rh) ==
        LET header == rh.val.n
            isTraitReference == (header \div 2) % 2 = 0
            traitRefIndex == header \div 4
            traits == rh.amf3TraitReferences
        IN IF rh.err # "" THEN rh
           ELSE IF header % 2 = 0
             THEN ObjectReference(rh, header \div 2, "Invalid object reference")
           ELSE IF isTraitReference THEN
             IF traitRefIndex >= Len(traits)
             THEN Fail(Resolved(rh, "trait", traitRefIndex, Len(traits), Undef),
                       "Invalid trait reference")
             ELSE Instance(Resolved(rh, "trait", traitRefIndex, Len(traits),
                                    traits[traitRefIndex + 1]),
                           traits[traitRefIndex + 1])
           ELSE ClassName(header, readAmf3String(b, rh))
  IN Header(readAmf3Integer(b, r))

\* readAmf3(buffer, info, type); type = -1 stands for an omitted type
readAmf3(b, r, type) ==
  LET rt == IF type = -1 THEN readUInt8(b, r) ELSE r
      t == IF type = -1 THEN rt.val.n ELSE type
  IN IF rt.err # "" THEN rt
     ELSE CASE t = kUndefinedType -> Return(rt, Undef)
            [] t = kNullType -> Return(rt, Null)
            [] t = kFalseType -> Return(rt, Bool(FALSE))
            [] t = kTrueType -> Return(rt, Bool(TRUE))
            [] t = kIntegerType -> readAmf3Integer(b, rt)
            [] t = kDoubleType -> readAmf3Double(b, rt)
            [] t = kStringType -> readAmf3String(b, rt)
            [] t = kXMLType -> readAmf3XML(b, rt, FALSE)
            [] t = kDateType -> readAmf3Date(b, rt)
            [] t = kArrayType -> readAmf3Array(b, rt)
            [] t = kObjectType -> readAmf3Object(b, rt)
            [] t = kAvmPlusXmlType -> readAmf3XML(b, rt, TRUE)
            [] t = kByteArrayType -> readAmf3ByteArray(b, rt)
            [] OTHER -> Fail(rt, "AMF3 type not yet implemented")

\* read.js: var END_OBJECT = { endObject: true }
read_END_OBJECT == Val("endObject", 0, <<>>)

\* var temp = {}
NewTemp == NewReadInfo(0, 0)

\* temp.offset = info.offset; temp.references = info.references. The heap,
\* the pending exception and the log are one for info and temp.
TempAt(r, t) ==
  [t EXCEPT !.offset = r.offset, !.references = r.references,
            !.heap = r.heap, !.err = r.err, !.log = r.log]

\* info after a call that was given temp: the value it returned and what it
\* did to the shared objects
AfterTemp(r, t) ==
  [r EXCEPT !.references = t.references, !.heap = t.heap, !.err = t.err,
            !.log = t.log, !.val = t.val]

readNumber(b, r) ==
  LET offset == r.offset
  IN IF r.err # "" THEN r
     ELSE IF offset + 8 > Len(b) THEN Fail(bytesUsed(r, 8), "out of range")
     ELSE Return(bytesUsed(r, 8), DoubleValue(Bytes(b, offset, offset + 8)))

readBoolean(b, r) ==
  LET offset == r.offset
  IN IF r.err # "" THEN r
     ELSE IF offset >= Len(b) THEN Fail(bytesUsed(r, 1), "out of range")
     ELSE Return(bytesUsed(r, 1), Bool(b[offset + 1] # 0))

readString(b, r) ==
  LET offset == r.offset
      length == UInt16At(b, offset)
  IN IF r.err # "" THEN r
     ELSE IF offset + 2 > Len(b) THEN Fail(r, "out of range")
     ELSE Return(bytesUsed(r, 2 + length),
                 Str(Utf8Decode(Bytes(b, offset + 2, offset + 2 + length))))

\* info.references[index]: a TypeError without a list (the list exists once
\* an object or array was entered, and is never empty then), undefined
\* beyond its end
readReference(b, r) ==
  LET index == UInt16At(b, r.offset)
  IN IF r.err # "" THEN r
     ELSE IF r.offset + 2 > Len(b) THEN Fail(r, "out of range")
     ELSE IF r.references = <<>> THEN Fail(bytesUsed(r, 2), "TypeError")
     ELSE IF index >= Len(r.references) THEN Return(bytesUsed(r, 2), Undef)
     ELSE Return(bytesUsed(r, 2), Ref(r.references[index + 1]))

\* object[key] = value, obj.__className__ = name
SetKey(node, key, v) ==
  IF key = sClassNameKey /\ v.t = "string" THEN [node EXCEPT !.name = v.s]
  ELSE IF node.k = "array" THEN ArraySet(node, key, v)
  ELSE SetProp(node, key, v)

readDate(b, r) ==
  LET offset == r.offset
      millis == DoubleValue(Bytes(b, offset, offset + 8))
      date == IF millis.t = "number" THEN DateNode(millis.n)
              ELSE Node("date", <<>>, FALSE, <<>>, <<>>, 0, millis.s)
  IN IF r.err # "" THEN r
     ELSE IF offset + 8 > Len(b) THEN Fail(r, "out of range")
     ELSE IF offset + 10 > Len(b) THEN Fail(bytesUsed(r, 8), "out of range")
     ELSE Return([bytesUsed(r, 10) EXCEPT !.heap = Append(@, date)],
                 Ref(Len(r.heap) + 1))

RECURSIVE read(_, _)
RECURSIVE readObject_while(_, _, _, _)
RECURSIVE readStrictArray_for(_, _, _, _, _)

\* the loop of readObject: while (value !== END_OBJECT) { key = readString(temp);
\* value = read(temp); if (value !== END_OBJECT) object[key] = value }, then
\* the two asserts. t is temp as the previous round left it.
readObject_while(b, r, t, object) ==
  LET Value(key, ri, tv) ==
        LET info == bytesUsed(AfterTemp(ri, tv), tv.byteLength)
        IN IF tv.err # "" THEN AfterTemp(ri, tv)
           ELSE IF tv.val = read_END_OBJECT THEN
             IF key # <<>> THEN Fail(info, "AssertionError") ELSE info
           ELSE readObject_while(b, [info EXCEPT !.heap[object] = SetKey(@, key, tv.val)],
                                 tv, object)
      Key(tk) ==
        LET info == bytesUsed(AfterTemp(r, tk), tk.byteLength)
        IN IF tk.err # "" THEN AfterTemp(r, tk)
           ELSE Value(tk.val.s, info, read(b, TempAt(info, tk)))
  IN IF r.err # "" THEN r
     ELSE Key(readString(b, [TempAt(r, t) EXCEPT !.byteLength = 0]))

\* readObject(buffer, info, object); object = 0 stands for an omitted object
readObject(b, r, object) ==
  LET id == IF object = 0 THEN Len(r.heap) + 1 ELSE object
      created == IF object = 0 THEN [r EXCEPT !.heap = Append(@, ObjectNode(<<>>, <<>>))]
                 ELSE r
  IN IF r.err # "" THEN r
     ELSE Return(readObject_while(b, [created EXCEPT !.references = Append(@, id)],
                                  NewTemp, id),
                 Ref(id))

readECMAArray(b, r) ==
  LET array == Len(r.heap) + 1
  IN IF r.err # "" THEN r
     ELSE IF r.offset + 4 > Len(b) THEN Fail(r, "out of range")
     ELSE Return(readObject(b, [bytesUsed(r, 4) EXCEPT
                                  !.heap = Append(@, ArrayNode(<<>>, <<>>))], array),
                 Ref(array))

\* the loop of readStrictArray: for (i = 0; i < count; i++) { value =
\* read(temp); bytesUsed(info, temp.byteLength); array.push(value) }
readStrictArray_for(b, r, t, array, n) ==
  LET Push(tv) ==
        IF tv.err # "" THEN AfterTemp(r, tv)
        ELSE readStrictArray_for(b,
               [bytesUsed(AfterTemp(r, tv), tv.byteLength) EXCEPT
                  !.heap[array].dense = Append(@, tv.val)],
               tv, array, n - 1)
  IN IF n = 0 \/ r.err # "" THEN r ELSE Push(read(b, TempAt(r, t)))

readStrictArray(b, r) ==
  LET array == Len(r.heap) + 1
      count == Int32At(b, r.offset)
      entered == [r EXCEPT !.heap = Append(@, ArrayNode(<<>>, <<>>)),
                           !.references = Append(@, array)]
  IN IF r.err # "" THEN r
     ELSE IF r.offset + 4 > Len(b) THEN Fail(entered, "out of range")
     ELSE Return(readStrictArray_for(b, bytesUsed(entered, 4), NewTemp, array, count),
                 Ref(array))

readTypedObject(b, r) ==
  LET Named(name, ro) ==
        IF ro.err # "" THEN ro
        ELSE [ro EXCEPT !.heap[ro.val.n] = SetKey(@, sClassNameKey, Str(name))]
      Name(rn) == IF rn.err # "" THEN rn ELSE Named(rn.val.s, readObject(b, rn, 0))
  IN Name(readString(b, r))

\* read(buffer, info)
read(b, r) ==
  LET rt == readUInt8(b, [r EXCEPT !.byteLength = 0])
      type == rt.val.n
  IN IF rt.err # "" THEN rt
     ELSE IF rt.version = 0 /\ type # amf0Types_kAvmPlusObjectType THEN
       CASE type = amf0Types_kNumberType -> readNumber(b, rt)
         [] type = amf0Types_kBooleanType -> readBoolean(b, rt)
         [] type = amf0Types_kStringType -> readString(b, rt)
         [] type = amf0Types_kObjectType -> readObject(b, rt, 0)
         [] type = amf0Types_kNullType -> Return(rt, Null)
         [] type = amf0Types_kUndefinedType -> Return(rt, Undef)
         [] type = amf0Types_kReferenceType -> readReference(b, rt)
         [] type = amf0Types_kECMAArrayType -> readECMAArray(b, rt)
         [] type = amf0Types_kObjectEndType -> Return(rt, read_END_OBJECT)
         [] type = amf0Types_kStrictArrayType -> readStrictArray(b, rt)
         [] type = amf0Types_kDateType -> readDate(b, rt)
         [] type = amf0Types_kTypedObjectType -> readTypedObject(b, rt)
         [] OTHER -> Fail(rt, "AMF0 type not yet implemented")
     ELSE readAmf3(b, IF rt.version = 0 THEN [rt EXCEPT !.version = 3] ELSE rt,
                   IF rt.version = 0 THEN -1 ELSE type)

(***************************************************************************)
(* lib/remoting.js                                                         *)
(***************************************************************************)
\* offset += n
Advance(w, n) == IF w.err # "" THEN w ELSE [w EXCEPT !.offset = @ + n]

\* readUtf8(buffer, offset): the result { value, offset } or the RangeError
\* of readUInt16BE
readUtf8(b, offset) ==
  IF offset + 2 > Len(b) THEN [value |-> <<>>, offset |-> offset, err |-> "out of range"]
  ELSE [value |-> Utf8Decode(Bytes(b, offset + 2, offset + 2 + UInt16At(b, offset))),
        offset |-> offset + 2 + UInt16At(b, offset), err |-> ""]

\* offset = writeUtf8(buffer, offset, value), on the buffer and offset of w
writeUtf8(w, str) ==
  LET byteLength == Len(Utf8(str))
      Body(head) ==
        IF head.err # "" THEN head
        ELSE Advance(bufferWrite(head, str, head.offset), byteLength)
  IN IF w.err # "" THEN w
     ELSE IF byteLength > 65535 THEN Fail(w, "String too long for AMF0 UTF-8")
     ELSE Body(Advance(writeUInt16BE(w, byteLength, w.offset), 2))

\* /out of range/i.test(err.message)
OutOfRange(err) == err \in {"out of range", "Integer out of range"}

RECURSIVE encodeValue_while(_, _, _, _, _)
\* the loop of encodeValue: the bytes, or the error that was thrown, with the
\* sizes of the buffers that were allocated (attempts) and the info object
\* of the last attempt
encodeValue_while(h, v, version, size, attempts) ==
  LET Attempt(info) ==
        IF info.err = ""
        THEN [bytes |-> slice(info), err |-> "", attempts |-> Append(attempts, size),
              info |-> info]
        ELSE IF OutOfRange(info.err) /\ size < 16 * 1024 * 1024
          THEN encodeValue_while(h, v, version, size * 2, Append(attempts, size))
        ELSE [bytes |-> <<>>, err |-> info.err, attempts |-> Append(attempts, size),
              info |-> info]
  IN Attempt(write(h, NewWriteInfo(size, version), v))

\* encodeValue(value, objectEncoding, sectionSize); sectionSize = 0 stands
\* for an omitted option
encodeValue(h, v, objectEncoding, sectionSize) ==
  encodeValue_while(h, v, IF objectEncoding = 3 THEN 3 ELSE 0,
                    IF sectionSize = 0 THEN 128 * 1024 ELSE sectionSize, <<>>)

\* what encodePacket did for one header or message: the encoded value, the
\* place of its bytes in the packet and the attempts of encodeValue
Section(kind, at, ev) ==
  [kind |-> kind, at |-> at, length |-> Len(ev.bytes), bytes |-> ev.bytes,
   attempts |-> ev.attempts, info |-> ev.info, err |-> ev.err]

\* buffer.writeInt32BE(length, offset); offset += 4; value.copy(buffer,
\* offset); offset += length. The sections are recorded in w.log.
encodePacket_value(w, kind, ev) ==
  LET Copy(wl) == Advance(bufferCopy(wl, ev.bytes, wl.offset), Len(ev.bytes))
      recorded == [w EXCEPT !.log = Append(@, Section(kind, w.offset + 4, ev))]
  IN IF w.err # "" THEN w
     ELSE IF ev.err # "" THEN Fail(recorded, ev.err)
     ELSE Copy(Advance(writeInt32BE(recorded, Len(ev.bytes), w.offset), 4))

\* what encodePacket writes before the value of a header: its name and
\* the mustUnderstand byte
encodePacket_header(w, header) ==
  LET Must(wn) ==
        Advance(writeUInt8(wn, IF header.mustUnderstand THEN 1 ELSE 0, wn.offset), 1)
  IN Must(writeUtf8(w, header.name))

\* what encodePacket writes before the body of a message: its URIs
encodePacket_message(w, message) ==
  writeUtf8(writeUtf8(w, message.targetUri), message.responseUri)

RECURSIVE encodePacket_for(_, _, _, _, _, _)
\* the two loops of encodePacket: over the headers, then the number of
\* messages, then over the messages. items is what is left of
\* packet.headers (kind "header") or of packet.messages (kind "message").
encodePacket_for(h, w, packet, options, kind, items) ==
  LET item == Head(items)
      Value(wp) ==
        IF wp.err # "" THEN wp
        ELSE encodePacket_value(wp, kind,
               encodeValue(h, IF kind = "header" THEN item.value ELSE item.body,
                           item.objectEncoding, options.sectionSize))
      Count(wh) == Advance(writeUInt16BE(wh, Len(packet.messages), wh.offset), 2)
  IN IF w.err # "" THEN w
     ELSE IF items # <<>>
       THEN encodePacket_for(h,
              Value(IF kind = "header" THEN encodePacket_header(w, item)
                    ELSE encodePacket_message(w, item)),
              packet, options, kind, Tail(items))
     ELSE IF kind = "header"
       THEN encodePacket_for(h, Count(w), packet, options, "message", packet.messages)
     ELSE w

\* encodePacket(packet, options); options.size = 0 stands for an omitted
\* option. The result is the buffer with its offset, the error that was
\* thrown and the sections (log); slice gives the returned bytes.
encodePacket(h, packet, options) ==
  encodePacket_for(h,
    Advance(writeUInt16BE(
      Advance(writeUInt16BE(
        NewWriteInfo(IF options.size = 0 THEN 1024 * 1024 ELSE options.size, 0),
        packet.version, 0), 2),
      Len(packet.headers), 2), 2),
    packet, options, "header", packet.headers)

\* the state of decodePacket: its cursor, the packet it builds, the objects
\* its values refer to (heap), the error that was thrown and, for every
\* header and message, what was read (sections)
NewPacketInfo(offset) ==
  [offset |-> offset, version |-> 0, headers |-> <<>>, messages |-> <<>>,
   byteLength |-> 0, heap |-> <<>>, err |-> "", sections |-> <<>>]

\* the cursor after a value that started at valueOffset
decodePacket_skip_consumedOnly(valueOffset, contentLength, consumed) ==
  valueOffset + consumed

decodePacket_skip(valueOffset, contentLength, consumed) ==
  IF contentLength >= 0 THEN valueOffset + contentLength ELSE valueOffset + consumed

\* var info = { offset: valueOffset, version: 0 }; the objects of the
\* packet so far stay on the heap
decodePacket_info(d, valueOffset) ==
  [NewReadInfo(valueOffset, 0) EXCEPT !.heap = d.heap]

\* contentLength = buffer.readInt32BE(offset); offset += 4; value =
\* read(buffer, info); the cursor moves on. The value is left in d.value.
decodePacket_value(b, d) ==
  LET contentLength == Int32At(b, d.offset)
      valueOffset == d.offset + 4
      Read(info) ==
        LET consumed == info.offset - valueOffset
            after == decodePacket_skip(valueOffset, contentLength, consumed)
        IN IF info.err # "" THEN [d EXCEPT !.err = info.err, !.heap = info.heap]
           ELSE [d EXCEPT !.offset = after, !.heap = info.heap,
                          !.sections = Append(@,
                             [valueOffset |-> valueOffset, length |-> contentLength,
                              consumed |-> consumed, after |-> after,
                              value |-> info.val, version |-> info.version,
                              log |-> info.log])]
  IN IF d.err # "" THEN d
     ELSE IF d.offset + 4 > Len(b) THEN [d EXCEPT !.err = "out of range"]
     ELSE Read(read(b, decodePacket_info(d, valueOffset)))

\* what decodePacket reads before the value of a header: the name and the
\* mustUnderstand byte. The cursor is left in d.
decodePacket_header(b, d) ==
  LET Name(headerName) ==
        IF headerName.err # "" THEN [d |-> [d EXCEPT !.err = headerName.err]]
        ELSE IF headerName.offset >= Len(b) THEN [d |-> [d EXCEPT !.err = "out of range"]]
        ELSE [d |-> [d EXCEPT !.offset = headerName.offset + 1],
              name |-> headerName.value,
              mustUnderstand |-> b[headerName.offset + 1] = 1]
  IN Name(readUtf8(b, d.offset))

\* what decodePacket reads before the body of a message: the two URIs
decodePacket_message(b, d) ==
  LET Response(targetUri, responseUri) ==
        IF responseUri.err # "" THEN [d |-> [d EXCEPT !.err = responseUri.err]]
        ELSE [d |-> [d EXCEPT !.offset = responseUri.offset],
              targetUri |-> targetUri.value, responseUri |-> responseUri.value]
      Target(targetUri) ==
        IF targetUri.err # "" THEN [d |-> [d EXCEPT !.err = targetUri.err]]
        ELSE Response(targetUri, readUtf8(b, targetUri.offset))
  IN Target(readUtf8(b, d.offset))

RECURSIVE decodePacket_for(_, _, _, _)
\* the two loops of decodePacket: n headers are left to read (kind
\* "header"), then the number of messages, then n messages (kind "message")
decodePacket_for(b, d, kind, n) ==
  LET Push(before, dv) ==
        LET section == dv.sections[Len(dv.sections)]
        IN IF dv.err # "" THEN dv
           ELSE IF kind = "header"
             THEN [dv EXCEPT !.headers = Append(@,
                     [name |-> before.name, mustUnderstand |-> before.mustUnderstand,
                      value |-> section.value, length |-> section.length,
                      objectEncoding |-> section.version])]
           ELSE [dv EXCEPT !.messages = Append(@,
                   [targetUri |-> before.targetUri, responseUri |-> before.responseUri,
                    body |-> section.value, length |-> section.length,
                    objectEncoding |-> section.version])]
      One(before) == Push(before, decodePacket_value(b, before.d))
  IN IF d.err # "" THEN d
     ELSE IF n > 0
       THEN decodePacket_for(b,
              One(IF kind = "header" THEN decodePacket_header(b, d)
                  ELSE decodePacket_message(b, d)),
              kind, n - 1)
     ELSE IF kind = "message" THEN d
     ELSE IF d.offset + 2 > Len(b) THEN [d EXCEPT !.err = "out of range"]
     ELSE decodePacket_for(b, [d EXCEPT !.offset = @ + 2], "message",
                           UInt16At(b, d.offset))

\* decodePacket(buffer) with options.offset omitted
decodePacket(b) ==
  LET Done(dm) == IF dm.err # "" THEN dm ELSE [dm EXCEPT !.byteLength = dm.offset]
      d == NewPacketInfo(0)
  IN IF Len(b) < 4 THEN [d EXCEPT !.err = "out of range"]
     ELSE Done(decodePacket_for(b, [d EXCEPT !.version = UInt16At(b, 0), !.offset = 4],
                                "header", UInt16At(b, 2)))

(***************************************************************************)
(* lib/utils/u29.js                                                        *)
(***************************************************************************)
\* buffer[offset]: undefined (here -1) beyond the end
ByteAt(b, offset) == IF offset < Len(b) THEN b[offset + 1] ELSE -1
\* byte < 128, byte & 0x7F and value | byte, where byte may be undefined
Below128(byte) == byte # -1 /\ byte < 128
Low7(byte) == IF byte = -1 THEN 0 ELSE byte % 128
OrByte(v, byte) == IF byte = -1 THEN v ELSE v + byte

\* readU29(buffer, offsetRef): the value and the new offsetRef.offset
readU29(b, offset) ==
  LET b1 == ByteAt(b, offset)
      b2 == ByteAt(b, offset + 1)
      b3 == ByteAt(b, offset + 2)
      b4 == ByteAt(b, offset + 3)
      v1 == Low7(b1) * 128
      v2 == (v1 + Low7(b2)) * 128
      v3 == (v2 + Low7(b3)) * 256
  IN IF Below128(b1) THEN [value |-> b1, offset |-> offset + 1]
     ELSE IF Below128(b2) THEN [value |-> v1 + b2, offset |-> offset + 2]
     ELSE IF Below128(b3) THEN [value |-> v2 + b3, offset |-> offset + 3]
     ELSE [value |-> OrByte(v3, b4), offset |-> offset + 4]

(***************************************************************************)
(* lib/amf3/encoder.js: the AMF3Encoder that a peer of read() writes with  *)
(***************************************************************************)
NewAMF3Encoder ==
  [chunks |-> <<>>, stringRefs |-> <<>>, objectRefs |-> <<>>, err |-> ""]

\* AMF3Encoder.prototype._push
AMF3Encoder_push(e, bytes) ==
  IF e.err # "" THEN e ELSE [e EXCEPT !.chunks = @ \o bytes]

\* AMF3Encoder.prototype._u8
AMF3Encoder_u8(e, v) == AMF3Encoder_push(e, <<v % 256>>)

\* AMF3Encoder.prototype._u29
AMF3Encoder_u29(e, u29) ==
  IF e.err # "" THEN e
  ELSE IF u29 < 0 \/ u29 >= 536870912 THEN Fail(e, "AMF3 U29 out of range")
  ELSE IF u29 < 128 THEN AMF3Encoder_u8(e, u29)
  ELSE IF u29 < 16384 THEN
    AMF3Encoder_u8(AMF3Encoder_u8(e, 128 + ((u29 \div 128) % 128)), u29 % 128)
  ELSE IF u29 < 2097152 THEN
    AMF3Encoder_u8(AMF3Encoder_u8(AMF3Encoder_u8(e,
      128 + ((u29 \div 16384) % 128)), 128 + ((u29 \div 128) % 128)), u29 % 128)
  ELSE
    AMF3Encoder_u8(AMF3Encoder_u8(AMF3Encoder_u8(AMF3Encoder_u8(e,
      128 + ((u29 \div 4194304) % 128)), 128 + ((u29 \div 32768) % 128)),
      128 + ((u29 \div 256) % 128)), u29 % 256)

\* AMF3Encoder.prototype._writeAmf3StringNoMarker
AMF3Encoder_writeAmf3StringNoMarker(e, s) ==
  LET idx == IndexOf(e.stringRefs, s)
      pushed == [e EXCEPT !.stringRefs = Append(@, s)]
  IN IF e.err # "" THEN e
     ELSE IF idx # -1 THEN AMF3Encoder_u29(e, 2 * idx)
     ELSE IF s = <<>> THEN AMF3Encoder_u29(e, 1)
     ELSE AMF3Encoder_push(AMF3Encoder_u29(pushed, 2 * Len(Utf8(s)) + 1), Utf8(s))

\* Object.keys(array).filter(k => !(n < length && String(n) === k)), n = +k >>> 0
RECURSIVE AMF3Encoder_keys(_, _)
AMF3Encoder_keys(props, length) ==
  IF props = <<>> THEN <<>>
  ELSE (IF ~(IsIndexKey(Head(props)[1]) /\ parseInt(Head(props)[1]) < length)
        THEN <<Head(props)>> ELSE <<>>)
       \o AMF3Encoder_keys(Tail(props), length)

RECURSIVE AMF3Encoder_encodeValue(_, _, _)
RECURSIVE AMF3Encoder_pairs(_, _, _)
RECURSIVE AMF3Encoder_items(_, _, _)

\* for (...) { this._writeAmf3StringNoMarker(key); this.encodeValue(value[key]) }
AMF3Encoder_pairs(h, e, props) ==
  IF props = <<>> \/ e.err # "" THEN e
  ELSE AMF3Encoder_pairs(h,
         AMF3Encoder_encodeValue(h,
           AMF3Encoder_writeAmf3StringNoMarker(e, Head(props)[1]), Head(props)[2]),
         Tail(props))

\* for (j = 0; j < length; j++) this.encodeValue(value[j])
AMF3Encoder_items(h, e, dense) ==
  IF dense = <<>> \/ e.err # "" THEN e
  ELSE AMF3Encoder_items(h, AMF3Encoder_encodeValue(h, e, Head(dense)), Tail(dense))

\* AMF3Encoder.prototype.encodeValue
AMF3Encoder_encodeValue(h, e, v) ==
  LET node == h[v.n]
      idx == IndexOf(e.objectRefs, v.n)
      pushed(m) == [AMF3Encoder_u8(e, m) EXCEPT !.objectRefs = Append(@, v.n)]
      reference(m) == AMF3Encoder_u29(AMF3Encoder_u8(e, m), 2 * idx)
      sidx == IndexOf(e.stringRefs, v.s)
      str == AMF3Encoder_u8(e, 6)
  IN IF e.err # "" THEN e
     ELSE CASE v.t = "undefined" -> AMF3Encoder_u8(e, 0)
       [] v.t = "null" -> AMF3Encoder_u8(e, 1)
       [] v.t = "boolean" -> AMF3Encoder_u8(e, IF v.n = 1 THEN 3 ELSE 2)
       [] v.t = "number" ->
            IF v.n >= -268435456 /\ v.n <= 268435455
            THEN AMF3Encoder_u29(AMF3Encoder_u8(e, 4), v.n % 536870912)
            ELSE AMF3Encoder_push(AMF3Encoder_u8(e, 5), DoubleBytes(v.n))
       [] v.t = "double" -> AMF3Encoder_push(AMF3Encoder_u8(e, 5), v.s)
       [] v.t = "string" ->
            IF sidx # -1 THEN AMF3Encoder_u29(str, 2 * sidx)
            ELSE IF Len(v.s) = 0 THEN AMF3Encoder_u29(str, 1)
            ELSE AMF3Encoder_push(
                   AMF3Encoder_u29([str EXCEPT !.stringRefs = Append(@, v.s)],
                                   2 * Len(Utf8(v.s)) + 1), Utf8(v.s))
       [] v.t = "ref" /\ node.k = "date" ->
            IF idx # -1 THEN reference(8)
            ELSE AMF3Encoder_push(AMF3Encoder_u29(pushed(8), 1), DoubleBytes(node.num))
       [] v.t = "ref" /\ node.k = "buffer" ->
            IF idx # -1 THEN reference(12)
            ELSE AMF3Encoder_push(AMF3Encoder_u29(pushed(12), 2 * Len(node.data) + 1),
                                  node.data)
       [] v.t = "ref" /\ node.k = "array" ->
            IF idx # -1 THEN reference(9)
            ELSE AMF3Encoder_items(h,
                   AMF3Encoder_writeAmf3StringNoMarker(
                     AMF3Encoder_pairs(h,
                       AMF3Encoder_u29(pushed(9), 2 * Len(node.dense) + 1),
                       AMF3Encoder_keys(node.props, Len(node.dense))),
                     <<>>),
                   node.dense)
       [] OTHER ->
            IF idx # -1 THEN reference(10)
            ELSE IF node.flag
            THEN Fail(AMF3Encoder_writeAmf3StringNoMarker(
                        AMF3Encoder_u29(pushed(10), 3 + 4), node.name),
                      "ExternalizableNotImplemented")
            ELSE AMF3Encoder_writeAmf3StringNoMarker(
                   AMF3Encoder_pairs(h,
                     AMF3Encoder_writeAmf3StringNoMarker(
                       AMF3Encoder_u29(pushed(10), 3 + 8 + 16 * 0), node.name),
                     node.props),
                   <<>>)

\* AMF3Encoder.prototype.finish
AMF3Encoder_finish(e) == e.chunks

(***************************************************************************)
(* lib/amf3/decoder.js: the AMF3Decoder class                              *)
(***************************************************************************)
\* new AMF3Decoder(buffer): offsetRef.offset and the three tables. heap
\* holds the objects the decoder creates, val the value a method returned
\* and err the exception it threw.
NewAMF3Decoder ==
  [offset |-> 0, stringRefs |-> <<>>, objectRefs |-> <<>>, traitRefs |-> <<>>,
   heap |-> <<>>, val |-> Undef, err |-> ""]

\* String(undefined), the key that obj[undefined] sets
sUndefined == <<117, 110, 100, 101, 102, 105, 110, 101, 100>>

\* _readU8: buffer[o] is undefined beyond the end
AMF3Decoder_readU8(b, d) ==
  IF d.err # "" THEN d
  ELSE [d EXCEPT !.offset = @ + 1,
                 !.val = IF d.offset < Len(b) THEN Num(b[d.offset + 1]) ELSE Undef]

\* readU29(this.buffer, this.offsetRef)
AMF3Decoder_readU29(b, d) ==
  IF d.err # "" THEN d
  ELSE [d EXCEPT !.offset = readU29(b, d.offset).offset,
                 !.val = Num(readU29(b, d.offset).value)]

\* _readDouble: buffer.readDoubleBE(o) throws a RangeError beyond the end
AMF3Decoder_readDouble(b, d) ==
  IF d.err # "" THEN d
  ELSE IF d.offset + 8 > Len(b) THEN Fail(d, "out of range")
  ELSE [d EXCEPT !.offset = @ + 8,
                 !.val = DoubleValue(Bytes(b, d.offset, d.offset + 8))]

\* _readInteger: bit 28 of the U29 is the sign
AMF3Decoder_readInteger(b, d) ==
  LET Signed(du) ==
        IF du.err # "" THEN du
        ELSE IF (du.val.n \div 268435456) % 2 = 1
          THEN Return(du, Num(du.val.n - 536870912))
        ELSE du
  IN Signed(AMF3Decoder_readU29(b, d))

\* _readUTF8(length): buffer.slice clamps to the end of the buffer
AMF3Decoder_readUTF8(b, d, length) ==
  IF d.err # "" THEN d
  ELSE [d EXCEPT !.offset = @ + length,
                 !.val = Str(Utf8Decode(Bytes(b, d.offset, d.offset + length)))]

\* _readString: stringRefs[refIndex] is undefined beyond the table
AMF3Decoder_readString(b, d) ==
  LET Pushed(ds) ==
        IF ds.err # "" THEN ds ELSE [ds EXCEPT !.stringRefs = Append(@, ds.val.s)]
      Header(dh) ==
        LET u29 == dh.val.n
            isRef == u29 % 2 = 0
            refIndex == u29 \div 2
        IN IF dh.err # "" THEN dh
           ELSE IF isRef
             THEN Return(dh, IF refIndex < Len(dh.stringRefs)
                             THEN Str(dh.stringRefs[refIndex + 1]) ELSE Undef)
           ELSE IF refIndex = 0 THEN Return(dh, Str(<<>>))
           ELSE Pushed(AMF3Decoder_readUTF8(b, dh, refIndex))
  IN Header(AMF3Decoder_readU29(b, d))

\* _readXMLDoc: the string, which is not added to objectRefs
AMF3Decoder_readXMLDoc(b, d) ==
  LET Header(dh) ==
        IF dh.err # "" THEN dh ELSE AMF3Decoder_readUTF8(b, dh, dh.val.n \div 2)
  IN Header(AMF3Decoder_readU29(b, d))

\* _readXML
AMF3Decoder_readXML(b, d) ==
  LET Header(dh) ==
        IF dh.err # "" THEN dh ELSE AMF3Decoder_readUTF8(b, dh, dh.val.n \div 2)
  IN Header(AMF3Decoder_readU29(b, d))

\* return this.objectRefs[refIndex]: undefined beyond the table
AMF3Decoder_objectRef(d, refIndex) ==
  Return(d, IF refIndex < Len(d.objectRefs) THEN Ref(d.objectRefs[refIndex + 1])
            ELSE Undef)

\* this.objectRefs.push(x) for a new object x, which is returned
AMF3Decoder_pushNew(d, node) ==
  IF d.err # "" THEN d
  ELSE [d EXCEPT !.heap = Append(@, node),
                 !.objectRefs = Append(@, Len(d.heap) + 1),
                 !.val = Ref(Len(d.heap) + 1)]

\* _readDate
AMF3Decoder_readDate(b, d) ==
  LET Made(dm) ==
        IF dm.err # "" THEN dm
        ELSE AMF3Decoder_pushNew(dm,
               IF dm.val.t = "number" THEN DateNode(dm.val.n)
               ELSE Node("date", <<>>, FALSE, <<>>, <<>>, 0, dm.val.s))
      Header(dh) ==
        IF dh.err # "" THEN dh
        ELSE IF dh.val.n % 2 = 0 THEN AMF3Decoder_objectRef(dh, dh.val.n \div 2)
        ELSE Made(AMF3Decoder_readDouble(b, dh))
  IN Header(AMF3Decoder_readU29(b, d))

\* _readByteArray: buffer.slice clamps to the end of the buffer
AMF3Decoder_readByteArray(b, d) ==
  LET Header(dh) ==
        LET length == dh.val.n \div 2
        IN IF dh.err # "" THEN dh
           ELSE IF dh.val.n % 2 = 0 THEN AMF3Decoder_objectRef(dh, length)
           ELSE AMF3Decoder_pushNew([dh EXCEPT !.offset = @ + length],
                                    BufferNode(Bytes(b, dh.offset, dh.offset + length)))
  IN Header(AMF3Decoder_readU29(b, d))

RECURSIVE AMF3Decoder_attach(_, _, _)
\* for (const k in associative) arr[k] = associative[k]. for-in visits the
\* index keys before the others; here the keys are taken in the order they
\* were set, which gives the same array, as no key occurs twice.
AMF3Decoder_attach(arr, props, i) ==
  IF i > Len(props) THEN arr
  ELSE AMF3Decoder_attach(ArraySet(arr, props[i][1], props[i][2]), props, i + 1)

RECURSIVE AMF3Decoder_readValue(_, _)
RECURSIVE AMF3Decoder_associative(_, _, _)
RECURSIVE AMF3Decoder_dense(_, _, _, _, _)
RECURSIVE AMF3Decoder_sealed(_, _, _, _, _)
RECURSIVE AMF3Decoder_dynamic(_, _, _)

\* while (true) { key = _readString(); if (!key || key.length === 0) break;
\* associative[key] = readValue() }; id is the place of associative in heap
AMF3Decoder_associative(b, d, id) ==
  LET Value(key, dv) ==
        IF dv.err # "" THEN dv
        ELSE AMF3Decoder_associative(b, [dv EXCEPT !.heap[id] = SetProp(@, key, dv.val)],
                                     id)
      Key(dk) ==
        IF dk.err # "" \/ dk.val.s = <<>> THEN dk
        ELSE Value(dk.val.s, AMF3Decoder_readValue(b, dk))
  IN Key(AMF3Decoder_readString(b, d))

\* for (let i = 0; i < denseLength; i++) dense[i] = readValue()
AMF3Decoder_dense(b, d, id, i, denseLength) ==
  LET Set(dv) ==
        IF dv.err # "" THEN dv
        ELSE AMF3Decoder_dense(b, [dv EXCEPT !.heap[id].dense[i + 1] = dv.val], id,
                               i + 1, denseLength)
  IN IF i >= denseLength \/ d.err # "" THEN d ELSE Set(AMF3Decoder_readValue(b, d))

\* _readArray: const associative = {}, read; const dense = new
\* Array(denseLength), read; the pairs are attached; objectRefs.push(arr)
AMF3Decoder_readArray(b, d) ==
  LET Attached(dd, associative, dense) ==
        IF dd.err # "" THEN dd
        ELSE [dd EXCEPT !.heap[dense] =
                          AMF3Decoder_attach(@, dd.heap[associative].props, 1),
                        !.objectRefs = Append(@, dense),
                        !.val = Ref(dense)]
      Dense(da, associative, denseLength) ==
        IF da.err # "" THEN da
        ELSE Attached(
               AMF3Decoder_dense(b,
                 [da EXCEPT !.heap = Append(@, ArrayNode(Holes(denseLength), <<>>))],
                 Len(da.heap) + 1, 0, denseLength),
               associative, Len(da.heap) + 1)
      Header(dh) ==
        LET header == dh.val.n
            isRef == header % 2 = 0
            denseLength == header \div 2
        IN IF dh.err # "" THEN dh
           ELSE IF isRef THEN AMF3Decoder_objectRef(dh, denseLength)
           ELSE Dense(AMF3Decoder_associative(b,
                        [dh EXCEPT !.heap = Append(@, ObjectNode(<<>>, <<>>))],
                        Len(dh.heap) + 1),
                      Len(dh.heap) + 1, denseLength)
  IN Header(AMF3Decoder_readU29(b, d))

\* for (let i = 0; i < trait.sealedCount; i++) obj[trait.sealedNames[i]] =
\* readValue(); a name that is undefined sets the key 'undefined'
AMF3Decoder_sealed(b, d, id, i, trait) ==
  LET name == IF trait.sealedNames[i + 1] = Undef THEN sUndefined
              ELSE trait.sealedNames[i + 1].s
      Set(dv) ==
        IF dv.err # "" THEN dv
        ELSE AMF3Decoder_sealed(b, [dv EXCEPT !.heap[id] = SetProp(@, name, dv.val)], id,
                                i + 1, trait)
  IN IF i >= trait.sealedCount \/ d.err # "" THEN d
     ELSE Set(AMF3Decoder_readValue(b, d))

\* while (true) { key = _readString(); if (!key || key.length === 0) break;
\* obj[key] = readValue() }
AMF3Decoder_dynamic(b, d, id) ==
  LET Value(key, dv) ==
        IF dv.err # "" THEN dv
        ELSE AMF3Decoder_dynamic(b, [dv EXCEPT !.heap[id] = SetProp(@, key, dv.val)], id)
      Key(dk) ==
        IF dk.err # "" \/ dk.val.s = <<>> THEN dk
        ELSE Value(dk.val.s, AMF3Decoder_readValue(b, dk))
  IN Key(AMF3Decoder_readString(b, d))

\* _readObjectWithTrait: objectRefs.push(obj) comes before the fields are
\* read; name holds __amf3ClassName. A trait that is undefined (a trait
\* reference beyond the table) is a TypeError.
AMF3Decoder_readObjectWithTrait(b, d, trait) ==
  LET obj == Len(d.heap) + 1
      Fields(dn) ==
        Return(IF trait.isDynamic
               THEN AMF3Decoder_dynamic(b, AMF3Decoder_sealed(b, dn, obj, 0, trait), obj)
               ELSE AMF3Decoder_sealed(b, dn, obj, 0, trait),
               Ref(obj))
  IN IF d.err # "" THEN d
     ELSE IF trait = Undef THEN Fail(d, "TypeError")
     ELSE IF trait.isExternalizable
       THEN Fail(AMF3Decoder_pushNew(d, ObjectNode(<<>>, <<>>)),
                 "ExternalizableNotImplemented")
     ELSE Fields(AMF3Decoder_pushNew(d,
            ObjectNode(IF trait.className = Undef THEN <<>> ELSE trait.className.s,
                       <<>>)))

RECURSIVE AMF3Decoder_sealedNames(_, _, _, _)
\* for (let i = 0; i < sealedCount; i++) trait.sealedNames[i] = _readString()
\* names holds the names read so far
AMF3Decoder_sealedNames(b, d, names, sealedCount) ==
  LET Next_(dn) ==
        IF dn.err # "" THEN dn
        ELSE AMF3Decoder_sealedNames(b, dn, Append(names, dn.val), sealedCount)
  IN IF d.err # "" THEN d
     ELSE IF Len(names) >= sealedCount THEN Return(d, Val("names", 0, names))
     ELSE Next_(AMF3Decoder_readString(b, d))

\* _readObject
AMF3Decoder_readObject(b, d) ==
  LET Inline(info, className, dn) ==
        IF dn.err # "" THEN dn
        ELSE AMF3Decoder_readObjectWithTrait(b,
               [dn EXCEPT !.traitRefs =
                  Append(@, [className |-> className, sealedCount |-> info \div 8,
                             isDynamic |-> (info \div 4) % 2 = 1,
                             isExternalizable |-> (info \div 2) % 2 = 1,
                             sealedNames |-> dn.val.s])],
               [className |-> className, sealedCount |-> info \div 8,
                isDynamic |-> (info \div 4) % 2 = 1,
                isExternalizable |-> (info \div 2) % 2 = 1,
                sealedNames |-> dn.val.s])
      ClassName(info, dc) ==
        IF dc.err # "" THEN dc
        ELSE Inline(info, dc.val, AMF3Decoder_sealedNames(b, dc, <<>>, info \div 8))
      Header(dh) ==
        LET header == dh.val.n
            isRef == header % 2 = 0
            info == header \div 2
            isTraitRef == info % 2 = 0
            traitIndex == info \div 2
        IN IF dh.err # "" THEN dh
           ELSE IF isRef THEN AMF3Decoder_objectRef(dh, info)
           ELSE IF isTraitRef
             THEN AMF3Decoder_readObjectWithTrait(b, dh,
                    IF traitIndex < Len(dh.traitRefs) THEN dh.traitRefs[traitIndex + 1]
                    ELSE Undef)
           ELSE ClassName(info, AMF3Decoder_readString(b, dh))
  IN Header(AMF3Decoder_readU29(b, d))

\* readValue. The readers of Vector and Dictionary (markers 0x0D to 0x11)
\* are not modelled: the values of the model have none, and no input holds
\* one of these markers.
AMF3Decoder_readValue(b, d) ==
  LET Marker(dm) ==
        LET marker == dm.val
        IN IF dm.err # "" THEN dm
           ELSE CASE marker = Num(0) -> Return(dm, Undef)
                  [] marker = Num(1) -> Return(dm, Null)
                  [] marker = Num(2) -> Return(dm, Bool(FALSE))
                  [] marker = Num(3) -> Return(dm, Bool(TRUE))
                  [] marker = Num(4) -> AMF3Decoder_readInteger(b, dm)
                  [] marker = Num(5) -> AMF3Decoder_readDouble(b, dm)
                  [] marker = Num(6) -> AMF3Decoder_readString(b, dm)
                  [] marker = Num(7) -> AMF3Decoder_readXMLDoc(b, dm)
                  [] marker = Num(8) -> AMF3Decoder_readDate(b, dm)
                  [] marker = Num(9) -> AMF3Decoder_readArray(b, dm)
                  [] marker = Num(10) -> AMF3Decoder_readObject(b, dm)
                  [] marker = Num(11) -> AMF3Decoder_readXML(b, dm)
                  [] marker = Num(12) -> AMF3Decoder_readByteArray(b, dm)
                  [] marker \in {Num(m) : m \in 13..17} -> Fail(dm, "Vector or Dictionary")
                  [] OTHER -> Fail(dm, "UnknownAMF3Marker")
  IN Marker(AMF3Decoder_readU8(b, d))

(***************************************************************************)
(* The inputs: numbers around the U29 boundaries, strings, and object      *)
(* graphs with shared and cyclic references.                               *)
(***************************************************************************)
Boundaries == {0, 128, 16384, 2097152, 268435456, 536870912}

Numbers ==
  {s * (b + d) : s \in {1, -1}, b \in Boundaries, d \in (0 - IntDelta - 1)..IntDelta}

sNs == <<110, 115>>
sA == <<97>>
sB == <<98>>
sClass == <<67, 233>>
sC == <<99>>

Strings == {<<>>, sNs, sA, sClass, <<8364>>}

Keys == <<sA, sB, sNs, sClass, sC>>

\* what a slot of the container (node 1) can hold
SlotValues == {Ref(1), Ref(2), Ref(3), Str(sNs), Str(sClass)}

Repeated == {[i \in 1..k |-> v] : k \in 1..MaxRepeat, v \in SlotValues}
Pairs == {<<v1, v2>> : v1 \in SlotValues, v2 \in SlotValues}
Slots == Repeated \cup Pairs

\* the slots as properties a, b, ns, ...
RECURSIVE AsProps(_, _)
AsProps(slots, i) ==
  IF i > Len(slots) THEN <<>>
  ELSE <<<<Keys[i], slots[i]>>>> \o AsProps(slots, i + 1)

Containers(slots) ==
  { ObjectNode(<<>>, AsProps(slots, 1)),
    ObjectNode(sClass, AsProps(slots, 1)),
    ArrayNode(slots, <<>>),
    ArrayNode(<<Head(slots)>>, AsProps(Tail(slots), 1)) }

\* two siblings of one class and the other kinds of complex value
Siblings ==
  { <<ObjectNode(sClass, <<<<sA, Num(1)>>>>), ObjectNode(sClass, <<<<sA, Num(2)>>>>)>>,
    <<ObjectNode(<<>>, <<<<sNs, Ref(1)>>>>), ArrayNode(<<Ref(3), Ref(2)>>, <<>>)>>,
    <<DateNode(0), DateNode(1000)>>,
    <<BufferNode(<<1, 2, 3>>), BufferNode(<<>>)>>,
    <<XmlNode(sNs, FALSE), XmlNode(sNs, TRUE)>>,
    <<ExternalizableNode(sClass), ArrayNode(<<Str(sA)>>, <<<<sNs, Str(sNs)>>>>)>> }

Graphs ==
  { [heap |-> <<c>> \o sib, value |-> Ref(1)] :
      c \in UNION {Containers(sl) : sl \in Slots}, sib \in Siblings }

Inputs ==
  { [heap |-> <<>>, value |-> v] :
      v \in {Undef, Null, Bool(TRUE), Bool(FALSE)}
            \cup {Num(n) : n \in Numbers} \cup {Str(s) : s \in Strings} }
  \cup Graphs

\* the values a corrupted byte takes
CorruptBytes == {0, 2, 5}

\* __amf3__: true, as createAmf3Object sets it
Amf3Mark == <<sAmf3Key, Bool(TRUE)>>

\* values for amf.encode(value): scalars, plain objects and arrays with a
\* shared and a cyclic reference, objects and arrays that hold values made
\* with createAmf3Object, and Dates
Amf0Graphs ==
  { <<ObjectNode(<<>>, <<<<sA, Num(3)>>, <<sB, Str(sNs)>>, <<sC, Ref(1)>>, <<sNs, Ref(2)>>>>),
      ArrayNode(<<Bool(TRUE), Ref(2)>>, <<>>)>>,
    <<ObjectNode(sClass, <<<<sA, Null>>, <<sB, Ref(2)>>, <<sC, Ref(2)>>>>), DateNode(1000)>>,
    <<ObjectNode(<<>>, <<<<sA, Ref(2)>>>>), ObjectNode(<<>>, <<Amf3Mark>>)>>,
    <<ObjectNode(<<>>, <<<<sA, Ref(2)>>, <<sB, Num(1)>>>>), ObjectNode(<<>>, <<Amf3Mark>>)>>,
    <<ObjectNode(<<>>, <<<<sA, Ref(2)>>, <<sB, Ref(3)>>>>),
      ObjectNode(sClass, <<<<sNs, Str(sNs)>>, Amf3Mark>>),
      ObjectNode(sClass, <<<<sNs, Str(sNs)>>, Amf3Mark>>)>>,
    <<ObjectNode(<<>>, <<<<sA, Str(sNs)>>, <<sB, Ref(2)>>, <<sC, Str(sNs)>>>>),
      ObjectNode(<<>>, <<<<sNs, Num(1)>>, Amf3Mark>>)>>,
    <<ArrayNode(<<Ref(2), Num(1)>>, <<>>), ObjectNode(<<>>, <<Amf3Mark>>)>>,
    <<ObjectNode(sClass, <<<<sA, Str(sNs)>>, <<sB, Ref(2)>>, Amf3Mark>>),
      ArrayNode(<<Ref(1), Str(sNs)>>, <<>>)>>,
    <<ObjectNode(<<>>, <<<<sA, Ref(2)>>>>), XmlNode(sNs, FALSE)>>,
    <<DateNode(0)>>,
    <<DateNode(1000)>> }

Amf0Inputs ==
  { [heap |-> <<>>, value |-> v] :
      v \in {Undef, Null, Bool(TRUE), Bool(FALSE), Num(3), Num(-1), Num(268435456),
             Str(<<>>), Str(sNs), Str(sClass)} }
  \cup { [heap |-> g, value |-> Ref(1)] : g \in Amf0Graphs }

\* AMF0 bytes as a peer writes them, with the value they stand for:
\* objects, typed objects, ECMA and strict arrays; in those of the second
\* set a property value or an element is an AMF3 value behind the AVMPlus
\* marker 0x11
PeerAmf0 ==
  { [bytes |-> <<3, 0, 1, 97, 0, 64, 8, 0, 0, 0, 0, 0, 0, 0, 1, 98, 2, 0, 2, 110, 115,
                 0, 0, 9>>,
     heap |-> <<ObjectNode(<<>>, <<<<sA, Num(3)>>, <<sB, Str(sNs)>>>>)>>],
    [bytes |-> <<16, 0, 3, 67, 195, 169, 0, 1, 97, 7, 0, 0, 0, 1, 98, 8, 0, 0, 0, 1,
                 0, 1, 48, 1, 1, 0, 0, 9, 0, 0, 9>>,
     heap |-> <<ObjectNode(sClass, <<<<sA, Ref(1)>>, <<sB, Ref(2)>>>>),
                ArrayNode(<<Bool(TRUE)>>, <<>>)>>],
    [bytes |-> <<10, 0, 0, 0, 3, 5, 2, 0, 1, 97, 10, 0, 0, 0, 1, 7, 0, 0>>,
     heap |-> <<ArrayNode(<<Null, Str(sA), Ref(2)>>, <<>>), ArrayNode(<<Ref(1)>>, <<>>)>>],
    [bytes |-> <<3, 0, 1, 97, 11, 0, 0, 0, 0, 0, 0, 0, 0, 0, 0, 0, 1, 98, 1, 0, 0, 0, 9>>,
     heap |-> <<ObjectNode(<<>>, <<<<sA, Ref(2)>>, <<sB, Bool(FALSE)>>>>), DateNode(0)>>] }

PeerAvmPlus ==
  { [bytes |-> <<3, 0, 1, 97, 17, 4, 1, 0, 0, 9>>,
     heap |-> <<ObjectNode(<<>>, <<<<sA, Num(1)>>>>)>>],
    [bytes |-> <<3, 0, 1, 97, 17, 4, 1, 0, 1, 98, 2, 0, 2, 110, 115, 0, 0, 9>>,
     heap |-> <<ObjectNode(<<>>, <<<<sA, Num(1)>>, <<sB, Str(sNs)>>>>)>>],
    [bytes |-> <<3, 0, 1, 97, 17, 6, 5, 110, 115, 0, 1, 98, 17, 6, 5, 110, 115, 0, 0, 9>>,
     heap |-> <<ObjectNode(<<>>, <<<<sA, Str(sNs)>>, <<sB, Str(sNs)>>>>)>>],
    [bytes |-> <<3, 0, 1, 97, 17, 10, 11, 1, 3, 98, 4, 1, 1, 0, 0, 9>>,
     heap |-> <<ObjectNode(<<>>, <<<<sA, Ref(2)>>>>),
                ObjectNode(<<>>, <<<<sB, Num(1)>>>>)>>],
    [bytes |-> <<10, 0, 0, 0, 2, 17, 4, 1, 2, 0, 1, 97>>,
     heap |-> <<ArrayNode(<<Num(1), Str(sA)>>, <<>>)>>],
    [bytes |-> <<10, 0, 0, 0, 2, 1, 1, 17, 6, 5, 110, 115>>,
     heap |-> <<ArrayNode(<<Bool(TRUE), Str(sNs)>>, <<>>)>>],
    [bytes |-> <<8, 0, 0, 0, 1, 0, 1, 48, 17, 4, 1, 0, 1, 97, 5, 0, 0, 9>>,
     heap |-> <<ArrayNode(<<Num(1)>>, <<<<sA, Null>>>>)>>] }

PeerInputs ==
  { [bytes |-> in.bytes, heap |-> in.heap, value |-> Ref(1), avmPlus |-> FALSE] :
      in \in PeerAmf0 }
  \cup { [bytes |-> in.bytes, heap |-> in.heap, value |-> Ref(1), avmPlus |-> TRUE] :
           in \in PeerAvmPlus }

\* the objects the packets refer to: a command envelope made with
\* createAmf3Object that holds an array with a second such object, a plain
\* object, and a plain object that holds the second one
PacketHeap ==
  <<ObjectNode(sClass, <<<<sC, Str(sNs)>>, <<sA, Ref(2)>>, Amf3Mark>>),
    ArrayNode(<<Ref(3)>>, <<>>),
    ObjectNode(sClass, <<<<sB, Str(sNs)>>, Amf3Mark>>),
    ObjectNode(<<>>, <<<<sA, Num(1)>>, <<sB, Str(sNs)>>>>),
    ObjectNode(<<>>, <<<<sA, Ref(3)>>, <<sB, Num(1)>>>>)>>

Header(name, v) ==
  [name |-> name, mustUnderstand |-> FALSE, value |-> v, objectEncoding |-> 0]
Message(body, objectEncoding) ==
  [targetUri |-> sNs, responseUri |-> sA, body |-> body,
   objectEncoding |-> objectEncoding]
Packet(version, headers, messages) ==
  [version |-> version, headers |-> headers, messages |-> messages]

Packets ==
  { Packet(3, <<Header(sA, Str(sC)), Header(sB, Str(sNs))>>, <<Message(Ref(1), 0)>>),
    Packet(3, <<Header(sA, Ref(3))>>, <<Message(Ref(1), 0), Message(Ref(1), 0)>>),
    Packet(0, <<Header(sA, Num(1))>>, <<Message(Ref(4), 0), Message(Str(sNs), 0)>>),
    Packet(0, <<>>, <<Message(Str(sNs), 0)>>),
    Packet(0, <<>>, <<Message(Ref(5), 0)>>),
    Packet(3, <<>>, <<Message(Num(-1), 3)>>),
    Packet(0, <<>>, <<>>) }

\* options.size and options.sectionSize, 0 for an omitted option: the
\* defaults, the sizes of the tests, an output buffer with room for one
\* byte of the first body, and section sizes around the 16 MiB ceiling
PacketOptions ==
  { [size |-> 0, sectionSize |-> 0],
    [size |-> 2048, sectionSize |-> 0],
    [size |-> 18, sectionSize |-> 0],
    [size |-> 0, sectionSize |-> 4],
    [size |-> 0, sectionSize |-> 3 * 1024 * 1024],
    [size |-> 0, sectionSize |-> 32 * 1024 * 1024] }

\* the longest dense part of the arrays below
MaxDense == 3

\* own string keys of an array that are not array indices: "1a", "01", ""
s1a == <<49, 97>>
s01 == <<48, 49>>

\* arrays with dense elements and own string-keyed properties, as in
\*   var arr = ['x', 'y', 'z']; arr.a = 1; arr.b = 2
\* for (var key in value) visits the indices first, then the string keys in
\* the order they were set
ArrayElements == {Str(sA), Num(1)}
ArrayProps ==
  { <<>>,
    <<<<sA, Num(2)>>>>,
    <<<<sA, Num(1)>>, <<sB, Num(2)>>>>,
    <<<<sNs, Str(sA)>>, <<sB, Str(sNs)>>>>,
    <<<<s1a, Num(5)>>>>,
    <<<<sA, Num(2)>>, <<s01, Str(sB)>>>>,
    <<<<<<>>, Num(1)>>>> }
ArrayInputs ==
  { [heap |-> <<ArrayNode(dense, props)>>, value |-> Ref(1)] :
      dense \in UNION {[1..n -> ArrayElements] : n \in 0..MaxDense},
      props \in ArrayProps }

\* inline AMF3 arrays as a peer writes them: 09, U29 (n << 1 | 1), the
\* associative pairs, the empty key 01, n dense values. heap holds the array
\* the bytes stand for: the dense values in wire order and the pairs as
\* named properties. In the second set a key reads as a non-negative
\* integer ("0", "1", "5").
PeerArrayPlain ==
  { [bytes |-> <<9, 1, 1>>, heap |-> <<ArrayNode(<<>>, <<>>)>>],
    [bytes |-> <<9, 5, 1, 4, 1, 4, 2>>, heap |-> <<ArrayNode(<<Num(1), Num(2)>>, <<>>)>>],
    [bytes |-> <<9, 5, 3, 97, 4, 7, 1, 4, 1, 4, 2>>,
     heap |-> <<ArrayNode(<<Num(1), Num(2)>>, <<<<sA, Num(7)>>>>)>>],
    [bytes |-> <<9, 3, 3, 97, 6, 3, 98, 3, 98, 6, 0, 1, 6, 2>>,
     heap |-> <<ArrayNode(<<Str(sB)>>, <<<<sA, Str(sB)>>, <<sB, Str(sA)>>>>)>>] }
PeerArrayIndexKey ==
  { [bytes |-> <<9, 5, 3, 48, 4, 7, 1, 4, 1, 4, 2>>,
     heap |-> <<ArrayNode(<<Num(1), Num(2)>>, <<<<<<48>>, Num(7)>>>>)>>],
    [bytes |-> <<9, 5, 3, 49, 4, 7, 1, 4, 1, 4, 2>>,
     heap |-> <<ArrayNode(<<Num(1), Num(2)>>, <<<<<<49>>, Num(7)>>>>)>>],
    [bytes |-> <<9, 5, 3, 53, 4, 7, 1, 4, 1, 4, 2>>,
     heap |-> <<ArrayNode(<<Num(1), Num(2)>>, <<<<<<53>>, Num(7)>>>>)>>],
    [bytes |-> <<9, 3, 3, 97, 4, 7, 3, 48, 4, 8, 1, 6, 0>>,
     heap |-> <<ArrayNode(<<Str(sA)>>, <<<<sA, Num(7)>>, <<<<48>>, Num(8)>>>>)>>] }
PeerArrays == PeerArrayPlain \cup PeerArrayIndexKey

(***************************************************************************)
(* The state machine: amf.encode(value, {objectEncoding: 3}), damage to    *)
(* the bytes in transit, amf.decode(buffer, {objectEncoding: 3}).          *)
(***************************************************************************)
\* no packet at hand
NoPacket == [version |-> 0, headers |-> <<>>, messages |-> <<>>]
NoOptions == [size |-> 0, sectionSize |-> 0]

InitAmf3 ==
  /\ pc = "start"
  /\ \E in \in Inputs : heap = in.heap /\ value = in.value
  /\ buffer = <<>>
  /\ wire = "none"
  /\ winfo = NewWriteInfo(DefaultEncodeSize, 3)
  /\ rinfo = NewReadInfo(0, 3)
  /\ thePacket = NoPacket /\ theOptions = NoOptions

\* a value to be encoded without options (AMF0)
InitAmf0 ==
  /\ pc = "start0"
  /\ \E in \in Amf0Inputs : heap = in.heap /\ value = in.value
  /\ buffer = <<>>
  /\ wire = "none"
  /\ winfo = NewWriteInfo(DefaultEncodeSize, 0)
  /\ rinfo = NewReadInfo(0, 0)
  /\ thePacket = NoPacket /\ theOptions = NoOptions

\* the AMF0 bytes of a peer, with the value the peer encoded
InitReceived ==
  /\ pc = "encoded0"
  /\ \E in \in PeerInputs :
       /\ heap = in.heap /\ value = in.value /\ buffer = in.bytes
       /\ wire = IF in.avmPlus THEN "peerAvmPlus" ELSE "peer"
  /\ winfo = NewWriteInfo(DefaultEncodeSize, 0)
  /\ rinfo = NewReadInfo(0, 0)
  /\ thePacket = NoPacket /\ theOptions = NoOptions

\* a packet to be encoded
InitPacket ==
  /\ pc = "packet"
  /\ heap = PacketHeap /\ value = Undef
  /\ thePacket \in Packets /\ theOptions \in PacketOptions
  /\ buffer = <<>>
  /\ wire = "none"
  /\ winfo = NewWriteInfo(DefaultEncodeSize, 0)
  /\ rinfo = NewReadInfo(0, 0)

\* an array to be encoded with {objectEncoding: 3}
InitArray ==
  /\ pc = "start"
  /\ \E in \in ArrayInputs : heap = in.heap /\ value = in.value
  /\ buffer = <<>>
  /\ wire = "none"
  /\ winfo = NewWriteInfo(DefaultEncodeSize, 3)
  /\ rinfo = NewReadInfo(0, 3)
  /\ thePacket = NoPacket /\ theOptions = NoOptions

\* the AMF3 bytes of an array as a peer wrote them
InitPeerArray ==
  /\ pc = "encoded"
  /\ \E in \in PeerArrays : heap = in.heap /\ value = Ref(1) /\ buffer = in.bytes
  /\ wire = "peer"
  /\ winfo = NewWriteInfo(DefaultEncodeSize, 3)
  /\ rinfo = NewReadInfo(0, 3)
  /\ thePacket = NoPacket /\ theOptions = NoOptions

InitArrays ==
  /\ InitArray \/ InitPeerArray
  /\ encoded = NewWriteInfo(0, 0)
  /\ decoded = NewPacketInfo(0)
  /\ reencoded = NewWriteInfo(0, 0)

Init ==
  /\ InitAmf3 \/ InitAmf0 \/ InitReceived \/ InitPacket
  /\ encoded = NewWriteInfo(0, 0)
  /\ decoded = NewPacketInfo(0)
  /\ reencoded = NewWriteInfo(0, 0)

\* exports.encode
Encode ==
  /\ pc = "start"
  /\ winfo' = write(WriterHeap(heap), NewWriteInfo(DefaultEncodeSize, 3), value)
  /\ IF winfo'.err = ""
     THEN pc' = "encoded" /\ buffer' = slice(winfo') /\ wire' = "encoded"
     ELSE pc' = "encodeError" /\ UNCHANGED <<buffer, wire>>
  /\ UNCHANGED <<heap, value, rinfo, pvars>>

\* the buffer loses its tail before it is decoded
Truncate ==
  /\ pc = "encoded" /\ wire = "encoded"
  /\ \E n \in 0..(Len(buffer) - 1) : buffer' = SubSeq(buffer, 1, n)
  /\ wire' = "truncated"
  /\ UNCHANGED <<pc, heap, value, winfo, rinfo, pvars>>

\* one byte of the buffer is replaced before it is decoded
Corrupt ==
  /\ pc = "encoded" /\ wire = "encoded"
  /\ \E i \in 1..Len(buffer) : \E b \in CorruptBytes \ {buffer[i]} :
       buffer' = [buffer EXCEPT ![i] = b]
  /\ wire' = "corrupted"
  /\ UNCHANGED <<pc, heap, value, winfo, rinfo, pvars>>

\* exports.decode
Decode ==
  /\ pc = "encoded"
  /\ rinfo' = read(buffer, NewReadInfo(0, 3))
  /\ pc' = IF rinfo'.err = "" THEN "decoded" ELSE "decodeError"
  /\ UNCHANGED <<heap, value, buffer, wire, winfo, pvars>>

\* a peer encodes the value with AMF3Encoder (XML wrappers are values of
\* write.js only)
EncodeScaffold ==
  /\ pc = "start"
  /\ \A i \in 1..Len(heap) : heap[i].k # "xml"
  /\ LET e == AMF3Encoder_encodeValue(heap, NewAMF3Encoder, value)
     IN IF e.err = ""
        THEN pc' = "encoded" /\ buffer' = AMF3Encoder_finish(e) /\ wire' = "scaffold"
        ELSE pc' = "encodeError" /\ UNCHANGED <<buffer, wire>>
  /\ UNCHANGED <<heap, value, winfo, rinfo, pvars>>

\* writeAmf3Integer applied to a number, into a buffer of four bytes
WriteInteger ==
  /\ pc = "start" /\ value.t = "number"
  /\ winfo' = writeAmf3Integer(NewWriteInfo(4, 3), value.n)
  /\ IF winfo'.err = ""
     THEN pc' = "integerWritten" /\ buffer' = slice(winfo') /\ wire' = "encoded"
     ELSE pc' = "integerError" /\ UNCHANGED <<buffer, wire>>
  /\ UNCHANGED <<heap, value, rinfo, pvars>>

\* readAmf3Integer applied to the bytes of writeAmf3Integer
ReadInteger ==
  /\ pc = "integerWritten"
  /\ rinfo' = readAmf3Integer(buffer, NewReadInfo(0, 3))
  /\ pc' = IF rinfo'.err = "" THEN "integerRead" ELSE "integerReadError"
  /\ UNCHANGED <<heap, value, buffer, wire, winfo, pvars>>

\* exports.encode without options
EncodeAmf0 ==
  /\ pc = "start0"
  /\ winfo' = write(WriterHeap(heap), NewWriteInfo(DefaultEncodeSize, 0), value)
  /\ IF winfo'.err = ""
     THEN pc' = "encoded0" /\ buffer' = slice(winfo') /\ wire' = "encoded"
     ELSE pc' = "encodeError0" /\ UNCHANGED <<buffer, wire>>
  /\ UNCHANGED <<heap, value, rinfo, pvars>>

\* exports.decode without options
DecodeAmf0 ==
  /\ pc = "encoded0"
  /\ rinfo' = read(buffer, NewReadInfo(0, 0))
  /\ pc' = IF rinfo'.err = "" THEN "decoded0" ELSE "decodeError0"
  /\ UNCHANGED <<heap, value, buffer, wire, winfo, pvars>>

\* exports.encodePacket
EncodePacket ==
  /\ pc = "packet"
  /\ encoded' = encodePacket(WriterHeap(heap), thePacket, theOptions)
  /\ IF encoded'.err = ""
     THEN pc' = "packetEncoded" /\ buffer' = slice(encoded') /\ wire' = "encoded"
     ELSE pc' = "packetEncodeError" /\ UNCHANGED <<buffer, wire>>
  /\ UNCHANGED <<heap, value, winfo, rinfo, thePacket, theOptions, decoded, reencoded>>

\* the length field of section i of the packet in the buffer
LengthField(i, n) ==
  [j \in 1..Len(buffer) |->
     IF j > encoded.log[i].at - 4 /\ j <= encoded.log[i].at
     THEN Int32Bytes(n)[j - (encoded.log[i].at - 4)]
     ELSE buffer[j]]

\* sections whose length field and bytes are in the buffer as encodePacket
\* measured them
Whole(i) ==
  /\ i \in 1..Len(encoded.log)
  /\ encoded.log[i].at + encoded.log[i].length <= Len(buffer)

\* a peer sends the packet with bytes after the value of one section,
\* counted in its length field
Pad ==
  /\ pc = "packetEncoded" /\ wire = "encoded"
  /\ \E i \in 1..Len(encoded.log) : \E n \in 1..MaxPad :
       /\ Whole(i)
       /\ buffer' = SubSeq(LengthField(i, encoded.log[i].length + n), 1,
                           encoded.log[i].at + encoded.log[i].length)
                     \o [k \in 1..n |-> 255]
                     \o SubSeq(buffer, encoded.log[i].at + encoded.log[i].length + 1,
                               Len(buffer))
  /\ wire' = "padded"
  /\ UNCHANGED <<pc, heap, value, winfo, rinfo, pvars>>

\* a peer sends the packet with the length of one section unknown (-1)
Sentinel ==
  /\ pc = "packetEncoded" /\ wire = "encoded"
  /\ \E i \in 1..Len(encoded.log) : Whole(i) /\ buffer' = LengthField(i, -1)
  /\ wire' = "sentinel"
  /\ UNCHANGED <<pc, heap, value, winfo, rinfo, pvars>>

\* exports.decodePacket
DecodePacket ==
  /\ pc = "packetEncoded"
  /\ decoded' = decodePacket(buffer)
  /\ pc' = IF decoded'.err = "" THEN "packetDecoded" ELSE "packetDecodeError"
  /\ UNCHANGED <<heap, value, buffer, wire, winfo, rinfo, thePacket, theOptions, encoded,
                 reencoded>>

\* exports.encodePacket of the packet that decodePacket returned
ReencodePacket ==
  /\ pc = "packetDecoded"
  /\ reencoded' = encodePacket(WriterHeap(decoded.heap),
                               Packet(decoded.version, decoded.headers, decoded.messages),
                               NoOptions)
  /\ pc' = IF reencoded'.err = "" THEN "packetReencoded" ELSE "packetReencodeError"
  /\ UNCHANGED <<heap, value, buffer, wire, winfo, rinfo, thePacket, theOptions, encoded,
                 decoded>>

Next ==
  \/ Encode \/ Truncate \/ Corrupt \/ Decode
  \/ EncodeScaffold \/ WriteInteger \/ ReadInteger
  \/ EncodeAmf0 \/ DecodeAmf0
  \/ EncodePacket \/ Pad \/ Sentinel \/ DecodePacket \/ ReencodePacket

Spec == Init /\ [][Next]_vars

\* the sizes of the buffers given to write(): Buffer.alloc(3), Buffer.alloc(4)
\* and one with room for every value. No string of the inputs is longer
\* than the smallest of them.
WriteCaps == {3, 4, DefaultEncodeSize}

\* exports.write(buffer, value, info) with info = { version: 3 } or {}, as
\* the tests call it: the return value is info.byteLength
Write ==
  /\ pc \in {"start", "start0"}
  /\ \E cap \in WriteCaps :
       winfo' = write(WriterHeap(heap), NewWriteInfo(cap, IF pc = "start" THEN 3 ELSE 0),
                      value)
  /\ pc' = IF winfo'.err = "" THEN "written" ELSE "writeError"
  /\ buffer' = slice(winfo')
  /\ UNCHANGED <<heap, value, wire, rinfo, pvars>>

InitWrite ==
  /\ InitAmf3 \/ InitAmf0
  /\ encoded = NewWriteInfo(0, 0)
  /\ decoded = NewPacketInfo(0)
  /\ reencoded = NewWriteInfo(0, 0)

NextWrite == Write

SpecWrite == InitWrite /\ [][NextWrite]_vars

\* amf.encode and amf.decode of arrays, {objectEncoding: 3}
NextArray == Encode \/ Decode

SpecArray == InitArrays /\ [][NextArray]_vars

\* new AMF3Decoder(buffer).readValue(), for the bytes of amf.encode or of a
\* peer
ReadValue ==
  /\ pc = "encoded"
  /\ rinfo' = AMF3Decoder_readValue(buffer, NewAMF3Decoder)
  /\ pc' = IF rinfo'.err = "" THEN "valueRead" ELSE "valueReadError"
  /\ UNCHANGED <<heap, value, buffer, wire, winfo, pvars>>

InitDecoder ==
  /\ InitAmf3 \/ InitPeerArray
  /\ encoded = NewWriteInfo(0, 0)
  /\ decoded = NewPacketInfo(0)
  /\ reencoded = NewWriteInfo(0, 0)

NextDecoder == Encode \/ ReadValue

SpecDecoder == InitDecoder /\ [][NextDecoder]_vars

\* the most iterations of the loop of encodeValue that are followed: from
\* one byte the size passes 16 MiB in 25
MaxAttempts == 32

\* options.sectionSize, 0 for an omitted option: the default, sizes below
\* the encoded values (no string of the inputs is longer than 3 bytes), and
\* sizes below, at and above the ceiling of 16 MiB
SectionSizes == {0, 3, 4, 3 * 1024 * 1024, 16 * 1024 * 1024, 32 * 1024 * 1024}

\* encodeValue(message.body, message.objectEncoding, options.sectionSize) is
\* about to be called
InitEncodeValue ==
  /\ pc = "value"
  /\ \E in \in Amf0Inputs : \E objectEncoding \in {0, 3} :
       /\ heap = in.heap /\ value = in.value
       /\ thePacket = Packet(objectEncoding, <<>>, <<Message(in.value, objectEncoding)>>)
  /\ \E sectionSize \in SectionSizes : theOptions = [size |-> 0, sectionSize |-> sectionSize]
  /\ buffer = <<>>
  /\ wire = "none"
  /\ winfo = NewWriteInfo(0, 0)
  /\ rinfo = NewReadInfo(0, 0)
  /\ encoded = NewWriteInfo(0, 0)
  /\ decoded = NewPacketInfo(0)
  /\ reencoded = NewWriteInfo(0, 0)

\* encodeValue up to its loop: var version = ..., var size = ...; encoded
\* holds size, the sizes of the buffers allocated so far (attempts) and the
\* result
EncodeValue_enter ==
  /\ pc = "value"
  /\ encoded' = [size |-> IF theOptions.sectionSize = 0 THEN 128 * 1024
                          ELSE theOptions.sectionSize,
                 version |-> IF thePacket.messages[1].objectEncoding = 3 THEN 3 ELSE 0,
                 attempts |-> <<>>, bytes |-> <<>>, err |-> ""]
  /\ pc' = "attempt"
  /\ UNCHANGED <<heap, value, buffer, wire, winfo, rinfo, thePacket, theOptions, decoded,
                 reencoded>>

\* a retry with a buffer of the same size
encodeValue_grow_sameSize(size) == size

\* size *= 2
encodeValue_grow(size) == size * 2

\* one iteration of while (true): a new buffer and info object, write, and
\* return, continue with twice the size, or throw
EncodeValue_attempt ==
  /\ pc = "attempt" /\ Len(encoded.attempts) < MaxAttempts
  /\ winfo' = write(WriterHeap(heap), NewWriteInfo(encoded.size, encoded.version), value)
  /\ IF winfo'.err = ""
     THEN /\ pc' = "valueReturned"
          /\ buffer' = slice(winfo')
          /\ encoded' = [encoded EXCEPT !.attempts = Append(@, encoded.size),
                                        !.bytes = slice(winfo')]
     ELSE IF OutOfRange(winfo'.err) /\ encoded.size < 16 * 1024 * 1024
     THEN /\ pc' = "attempt"
          /\ encoded' = [encoded EXCEPT !.attempts = Append(@, encoded.size),
                                        !.size = encodeValue_grow(@)]
          /\ UNCHANGED buffer
     ELSE /\ pc' = "valueThrown"
          /\ encoded' = [encoded EXCEPT !.attempts = Append(@, encoded.size),
                                        !.err = winfo'.err]
          /\ UNCHANGED buffer
  /\ UNCHANGED <<heap, value, wire, rinfo, thePacket, theOptions, decoded, reencoded>>

NextEncodeValue == EncodeValue_enter \/ EncodeValue_attempt

\* an iteration of the loop can be taken
Attempting == pc = "attempt" /\ Len(encoded.attempts) < MaxAttempts

\* encodeValue is sequential code that runs on until it returns or throws:
\* weak fairness of its two steps. For the iteration, WF_vars is written out
\* with Attempting for ENABLED <<EncodeValue_attempt>>_vars: an iteration
\* can be taken exactly when Attempting holds, and it appends to attempts.
SpecEncodeValue ==
  /\ InitEncodeValue /\ [][NextEncodeValue]_vars
  /\ WF_vars(EncodeValue_enter)
  /\ ([]<>~Attempting \/ []<><<EncodeValue_attempt>>_vars)

\* a peer sends the packet with a length field that is smaller than the
\* value of the section: 0, or one byte short
Understate ==
  /\ pc = "packetEncoded" /\ wire = "encoded"
  /\ \E i \in 1..Len(encoded.log) : \E n \in {0, encoded.log[i].length - 1} :
       Whole(i) /\ buffer' = LengthField(i, n)
  /\ wire' = "understated"
  /\ UNCHANGED <<pc, heap, value, winfo, rinfo, pvars>>

\* a peer sends the packet with a length field that counts bytes the buffer
\* does not hold after the value of the section
Overstate ==
  /\ pc = "packetEncoded" /\ wire = "encoded"
  /\ \E i \in 1..Len(encoded.log) : \E n \in 1..MaxPad :
       Whole(i) /\ buffer' = LengthField(i, encoded.log[i].length + n)
  /\ wire' = "overstated"
  /\ UNCHANGED <<pc, heap, value, winfo, rinfo, pvars>>

\* the packets of version 0: one to three sections with a number, a
\* string, a plain object and an object that holds an AMF3 object
LengthPackets == {packet \in Packets : packet.version = 0}

InitLengths ==
  /\ pc = "packet"
  /\ heap = PacketHeap /\ value = Undef
  /\ thePacket \in LengthPackets /\ theOptions \in PacketOptions
  /\ buffer = <<>>
  /\ wire = "none"
  /\ winfo = NewWriteInfo(DefaultEncodeSize, 0)
  /\ rinfo = NewReadInfo(0, 0)
  /\ encoded = NewWriteInfo(0, 0)
  /\ decoded = NewPacketInfo(0)
  /\ reencoded = NewWriteInfo(0, 0)

NextLengths == EncodePacket \/ Understate \/ Overstate \/ DecodePacket

\* decodePacket on packets whose length fields do not match their values
SpecLengths == InitLengths /\ [][NextLengths]_vars

(***************************************************************************)
(* The claims.                                                             *)
(***************************************************************************)
IsNumberIn(lo, hi) == value.t = "number" /\ value.n >= lo /\ value.n <= hi

\* C1: every integer n with 0 <= n < 2^29 survives amf.encode followed by
\* amf.decode in AMF3 mode, and from 2^28 on it is written as a Double, not
\* as an Integer.
C1_IntegerRoundTrip ==
  (IsNumberIn(0, 536870911) /\ wire \in {"none", "encoded"}
     /\ pc \in {"encodeError", "encoded", "decoded", "decodeError"}) =>
    /\ pc \in {"encoded", "decoded"}
    /\ pc = "decoded" => rinfo.val = value
    /\ value.n >= 268435456 =>
         /\ Head(buffer) = kDoubleType
         /\ Len(buffer) = 9
         /\ \A i \in 1..Len(winfo.log) : winfo.log[i].end - winfo.log[i].at = 9

C1_Witness ==
  pc = "decoded" /\ wire = "encoded" /\ value = Num(536870911) /\ rinfo.val = value

\* C2: every integer of the signed 29-bit range, the negative ones included,
\* is encoded in AMF3 mode as the Integer marker 0x04 followed by the U29 of
\* its low 29 bits.
C2_SignedIntegerEncodes ==
  (IsNumberIn(-268435456, 268435455) /\ wire \in {"none", "encoded"}
     /\ pc \in {"encodeError", "encoded"}) =>
    /\ pc = "encoded"
    /\ Head(buffer) = kIntegerType
    /\ readU29(buffer, 1) = [value |-> value.n % 536870912, offset |-> Len(buffer)]

\* C3: read() of an AMF3 Integer whose U29 has bit 28 set returns the sign
\* extended number u - 2^29, and u itself when bit 28 is clear.
C3_IntegerSignExtended ==
  (pc = "decoded" /\ Len(buffer) >= 1 /\ Head(buffer) = kIntegerType) =>
    LET u == readU29(buffer, 1).value
    IN rinfo.val = Num(IF u >= 268435456 THEN u - 536870912 ELSE u)

\* C4: for u in [0, 2^29) writeAmf3Integer emits 1, 2, 3 or 4 bytes by the
\* thresholds 0x80, 0x4000 and 0x200000, with the high bit set on every byte
\* but the last and eight data bits in a fourth byte; readAmf3Integer (and
\* readU29) on those bytes returns u and consumes exactly those bytes.
C4_U29Layout ==
  /\ IsNumberIn(0, 536870911) => pc \notin {"integerError", "integerReadError"}
  /\ pc \in {"integerWritten", "integerRead"} =>
       LET u == value.n
           n == Len(buffer)
       IN /\ n = (IF u < 128 THEN 1 ELSE IF u < 16384 THEN 2
                  ELSE IF u < 2097152 THEN 3 ELSE 4)
          /\ winfo.offset = n /\ winfo.byteLength = n
          /\ \A i \in 1..(n - 1) : buffer[i] >= 128
          /\ n < 4 => buffer[n] < 128
          /\ n = 4 => buffer[4] = u % 256
          /\ readU29(buffer, 0) = [value |-> u, offset |-> n]
  /\ pc = "integerRead" => rinfo.val = Num(value.n) /\ rinfo.offset = Len(buffer)

C4_Witness ==
  pc = "integerRead" /\ value = Num(536870911) /\ Len(buffer) = 4 /\ buffer[4] = 255

\* amf.encode has returned and its bytes are the ones that are decoded
Intact == wire = "encoded" /\ pc \in {"encoded", "decoded", "decodeError"}

\* amf.encode has thrown
EncodeFailed == pc = "encodeError" /\ winfo.err # ""

\* the calls of writeAmf3String with a non-empty string, and the calls of
\* writeAmf3 with a complex value, as positions of the writer's record
StringEvents ==
  {j \in 1..Len(winfo.log) : winfo.log[j].ev = "string" /\ winfo.log[j].v.s # <<>>}
ValueEvents ==
  {j \in 1..Len(winfo.log) : winfo.log[j].ev = "value" /\ winfo.log[j].v.t = "ref"}

\* the first occurrence of a string or of a complex value on the wire
FirstOf(events, v) ==
  CHOOSE j \in events :
    /\ winfo.log[j].v = v
    /\ \A i \in events : winfo.log[i].v = v => winfo.log[j].at <= winfo.log[i].at

\* the number of distinct strings or complex values that occur before it
PositionOf(events, v) ==
  Cardinality({u \in {winfo.log[i].v : i \in events} :
                 winfo.log[FirstOf(events, u)].at < winfo.log[FirstOf(events, v)].at})

\* the decoded counterpart of an encoded value: the i-th object the reader
\* created for the i-th object the writer emitted
Twin(v) ==
  IF v.t = "ref"
  THEN Ref(rinfo.amf3ObjectReferences[IndexOf(winfo.amf3ObjectReferences, v.n) + 1])
  ELSE v
TwinNode(n) ==
  [n EXCEPT !.props = [i \in 1..Len(@) |-> <<@[i][1], Twin(@[i][2])>>],
            !.dense = [i \in 1..Len(@) |-> Twin(@[i])]]
SameGraph ==
  /\ Len(rinfo.amf3ObjectReferences) = Len(winfo.amf3ObjectReferences)
  /\ rinfo.val = Twin(value)
  /\ \A i \in 1..Len(winfo.amf3ObjectReferences) :
       rinfo.heap[rinfo.amf3ObjectReferences[i]]
         = TwinNode(heap[winfo.amf3ObjectReferences[i]])

\* C5: within one AMF3 message a non-empty string is written inline exactly
\* once, at its first occurrence (as a value, property name, class name or
\* array key); every later occurrence is a string reference, U29 = index << 1,
\* with index its position in the string table; decoding gives back the same
\* strings at every occurrence.
C5_StringWrittenOnce ==
  (Intact /\ value.t \in {"string", "ref"}) =>
    /\ \A j \in StringEvents :
         LET e == winfo.log[j]
             bytes == Utf8(e.v.s)
             u == readU29(buffer, e.at)
             index == PositionOf(StringEvents, e.v)
         IN /\ index < Len(winfo.amf3StringReferences)
            /\ winfo.amf3StringReferences[index + 1] = e.v.s
            /\ IF j = FirstOf(StringEvents, e.v)
               THEN /\ u.value = 2 * Len(bytes) + 1
                    /\ e.end = u.offset + Len(bytes)
                    /\ Bytes(buffer, u.offset, e.end) = bytes
               ELSE u = [value |-> 2 * index, offset |-> e.end]
    /\ Len(winfo.amf3StringReferences)
         = Cardinality({winfo.log[j].v : j \in StringEvents})
    /\ pc # "decodeError"
    /\ pc = "decoded" => SameGraph

C5_Witness ==
  /\ pc = "decoded" /\ wire = "encoded"
  /\ heap # <<>> /\ heap[1].k = "object"
  /\ Cardinality({j \in StringEvents : winfo.log[j].v = Str(sNs)}) >= 3
  /\ \A i \in 1..Len(heap[1].props) :
       rinfo.heap[rinfo.val.n].props[i][2] = Str(sNs)

\* C6: a complex value (Array, Object, Date, ByteArray, XML) that is met
\* again in the same message is written as its marker followed by the object
\* reference U29 = index << 1, index being the position of its first
\* emission, and nothing else is written for it.
C6_RepeatedValueIsReference ==
  Intact =>
    \A j \in ValueEvents :
      LET e == winfo.log[j]
      IN j # FirstOf(ValueEvents, e.v) =>
           /\ buffer[e.at + 1] = getTypeAmf3(heap, e.v)
           /\ readU29(buffer, e.at + 1)
                = [value |-> 2 * PositionOf(ValueEvents, e.v), offset |-> e.end]

C6_Witness ==
  /\ pc = "encoded" /\ wire = "encoded"
  /\ Len(heap) = 3 /\ heap[2].k = "date" /\ heap[3].k = "date"
  /\ \E i, j \in ValueEvents :
       /\ winfo.log[i].v = Ref(3) /\ winfo.log[j].v = Ref(3)
       /\ winfo.log[i].at < winfo.log[j].at
       /\ PositionOf(ValueEvents, Ref(3)) = 1
       /\ winfo.log[j].end - winfo.log[j].at = 2

\* the members of the root that are the root itself
SelfProps ==
  {i \in 1..Len(heap[1].props) : heap[1].props[i][2] = Ref(1)}
SelfItems ==
  {i \in 1..Len(heap[1].dense) : heap[1].dense[i] = Ref(1)}
IsCyclic ==
  heap # <<>> /\ value = Ref(1) /\ SelfProps \cup SelfItems # {}

\* C7: encoding an object with obj.self = obj, or an array that contains
\* itself, ends with a finite byte sequence, and decoding it yields a
\* structure whose self member is the decoded root itself.
C7_CycleRoundTrip ==
  (IsCyclic /\ (EncodeFailed \/ Intact)) =>
    /\ pc \in {"encoded", "decoded"}
    /\ Len(buffer) = winfo.offset
    /\ \A j \in ValueEvents :
         (winfo.log[j].v = Ref(1) /\ j # FirstOf(ValueEvents, Ref(1))) =>
           winfo.log[j].end - winfo.log[j].at = 2
    /\ pc = "decoded" =>
         /\ rinfo.val.t = "ref"
         /\ \A i \in SelfProps : rinfo.heap[rinfo.val.n].props[i][2] = rinfo.val
         /\ \A i \in SelfItems : rinfo.heap[rinfo.val.n].dense[i] = rinfo.val

C7_Witness ==
  /\ pc = "decoded" /\ wire = "encoded" /\ IsCyclic
  /\ heap[1].k = "object" /\ SelfProps = {1}
  /\ rinfo.heap[rinfo.val.n].props[1][2] = rinfo.val

\* two distinct objects of the same class and the same property names
SameShape(a, b) ==
  /\ heap[a].k = "object" /\ heap[b].k = "object"
  /\ ~heap[a].flag /\ ~heap[b].flag
  /\ heap[a].name = heap[b].name
  /\ [i \in 1..Len(heap[a].props) |-> heap[a].props[i][1]]
       = [i \in 1..Len(heap[b].props) |-> heap[b].props[i][1]]

\* C8: of two sibling objects of the same class and the same property names
\* the first is written with an inline trait and the second with a trait
\* reference; the class name is written inline once and is in the string
\* table once.
C8_SiblingsShareTrait ==
  (/\ Intact /\ Len(heap) = 3 /\ SameShape(2, 3)
   /\ {Ref(2), Ref(3)} \subseteq {winfo.log[j].v : j \in ValueEvents}) =>
    LET e2 == winfo.log[FirstOf(ValueEvents, Ref(2))]
        e3 == winfo.log[FirstOf(ValueEvents, Ref(3))]
        first == IF e2.at < e3.at THEN e2 ELSE e3
        second == IF e2.at < e3.at THEN e3 ELSE e2
        className == Str(heap[2].name)
    IN /\ readU29(buffer, first.at + 1).value % 4 = 3
       /\ readU29(buffer, second.at + 1).value % 4 = 1
       /\ Cardinality({i \in 1..Len(winfo.amf3StringReferences) :
                         winfo.amf3StringReferences[i] = className.s}) = 1
       /\ \A j \in StringEvents :
            (winfo.log[j].v = className /\ j # FirstOf(StringEvents, className)) =>
              readU29(buffer, winfo.log[j].at).value % 2 = 0

\* the entry of the reader's table that a reference names
Entry(e) ==
  CASE e.ev = "string" -> Str(rinfo.amf3StringReferences[e.idx + 1])
    [] e.ev = "object" -> Ref(rinfo.amf3ObjectReferences[e.idx + 1])
    [] e.ev = "trait" -> rinfo.amf3TraitReferences[e.idx + 1]

InvalidReference ==
  {"Invalid string reference", "Invalid object reference", "Invalid array reference",
   "Invalid date reference", "Invalid XML reference", "Invalid ByteArray reference",
   "Invalid trait reference"}

\* C9: a string, object, array, date, XML, ByteArray or trait reference whose
\* index is not smaller than the length of its table at the moment it is read
\* makes read() fail without a value; a smaller index gives the entry of the
\* table at that index.
C9_ReferenceInRange ==
  pc \in {"decoded", "decodeError"} =>
    \A j \in 1..Len(rinfo.log) :
      LET e == rinfo.log[j]
      IN IF e.idx >= e.len
         THEN /\ pc = "decodeError"
              /\ rinfo.err \in InvalidReference
              /\ j = Len(rinfo.log)
              /\ e.v = Undef
         ELSE e.v = Entry(e)

C9_Witness ==
  /\ pc = "decodeError" /\ wire = "corrupted"
  /\ Len(rinfo.log) >= 2
  /\ rinfo.log[1].idx < rinfo.log[1].len
  /\ rinfo.log[1].v = Str(sNs)
  /\ rinfo.log[Len(rinfo.log)].idx >= rinfo.log[Len(rinfo.log)].len
  /\ rinfo.err \in InvalidReference

\* C10: a decode that needs a byte at or beyond the end of its buffer (a U29
\* cut off, an inline string, XML or ByteArray longer than the bytes left)
\* fails; it returns no shortened or zero-padded value and leaves the cursor
\* within the buffer.
C10_TruncationFails ==
  (wire = "truncated" /\ pc \in {"decoded", "decodeError"}) =>
    /\ pc = "decodeError"
    /\ rinfo.offset <= Len(buffer)

\* the bytes of a peer were decoded by amf.decode, or the decode has thrown
PeerDecoded == pc \in {"decoded0", "decodeError0"}

\* the decoder gave back the value the peer encoded and consumed its bytes
PeerValueRead ==
  /\ pc = "decoded0"
  /\ rinfo.val = value
  /\ rinfo.heap = heap
  /\ rinfo.offset = Len(buffer)

\* C12: when the decoder meets the AVMPlus marker 0x11 among the property
\* values of an AMF0 object or the elements of an AMF0 strict array, it
\* decodes one AMF3 value and returns to AMF0 mode: the following siblings
\* and the object-end marker are decoded with AMF0 rules, so the value of
\* the peer is read back and all of its bytes are consumed.
C12_AvmPlusThenAmf0 ==
  (wire = "peerAvmPlus" /\ PeerDecoded) => PeerValueRead

\* plain AMF0 bytes of a peer are read back as the peer's value
PlainPeerRead ==
  (wire = "peer" /\ PeerDecoded) => PeerValueRead

\* amf.encode without options has written an object that is not flagged
\* for AMF3 but has a property value that is
Amf0ObjectWithAmf3Member ==
  /\ pc = "encoded0" /\ wire = "encoded"
  /\ value = Ref(1) /\ heap[1].k = "object" /\ ~Amf3Flag(heap[1])
  /\ \E i \in 1..Len(heap[1].props) :
       heap[1].props[i][2].t = "ref" /\ Amf3Flag(heap[heap[1].props[i][2].n])

\* the calls of writeAmf3 that are not made from within another one
OutermostAmf3 ==
  {j \in 1..Len(winfo.log) :
     /\ winfo.log[j].ev = "value"
     /\ \A i \in 1..Len(winfo.log) :
          (winfo.log[i].ev = "value" /\ i # j) =>
            ~(winfo.log[i].at <= winfo.log[j].at /\ winfo.log[j].end <= winfo.log[i].end)}

\* C13: when the encoder meets a property value flagged for AMF3 in an AMF0
\* object it writes the AVMPlus marker 0x11 and the AMF3 encoding of that
\* value with fresh tables; the sibling values that follow and the closing
\* marker 0x09 are written with AMF0 rules, so only flagged values are
\* handed to the AMF3 writer and the bytes end with 00 00 09.
C13_Amf3MemberThenAmf0 ==
  Amf0ObjectWithAmf3Member =>
    /\ Len(buffer) >= 3
    /\ SubSeq(buffer, Len(buffer) - 2, Len(buffer)) = <<0, 0, amf0Types_kObjectEndType>>
    /\ \A j \in OutermostAmf3 :
         LET e == winfo.log[j]
         IN /\ e.v.t = "ref" /\ e.v.n <= Len(heap) /\ Amf3Flag(heap[e.v.n])
            /\ buffer[e.at] = amf0Types_kAvmPlusObjectType
            /\ Bytes(buffer, e.at, e.end)
                 = slice(writeAmf3(WriterHeap(heap), NewWriteInfo(DefaultEncodeSize, 3), e.v))

\* the value and the objectEncoding of section i of the packet, headers
\* first
SectionValue(i) ==
  IF i <= Len(thePacket.headers) THEN thePacket.headers[i].value
  ELSE thePacket.messages[i - Len(thePacket.headers)].body
SectionEncoding(i) ==
  IF i <= Len(thePacket.headers) THEN thePacket.headers[i].objectEncoding
  ELSE thePacket.messages[i - Len(thePacket.headers)].objectEncoding

\* the first time a writer met a non-empty string or a complex value it
\* wrote it inline (low bit of the U29 set), not as a reference into a table
FirstInline(log, bytes) ==
  \A j \in 1..Len(log) :
    LET e == log[j]
        first == \A i \in 1..Len(log) :
                   (log[i].ev = e.ev /\ log[i].v = e.v) => e.at <= log[i].at
    IN /\ (e.ev = "string" /\ e.v.s # <<>> /\ first)
            => readU29(bytes, e.at).value % 2 = 1
       /\ (e.ev = "value" /\ e.v.t = "ref" /\ first)
            => readU29(bytes, e.at + 1).value % 2 = 1

RECURSIVE SameValue(_, _, _, _, _)
\* v of heap h and u of heap g are the same value: equal primitives, or
\* objects of the same kind and class with the same members in the same
\* order (compared to the given depth)
SameValue(h, v, g, u, depth) ==
  IF v.t # "ref" THEN u = v
  ELSE /\ u.t = "ref" /\ u.n \in 1..Len(g) /\ depth > 0
       /\ LET a == h[v.n]
              b == g[u.n]
          IN /\ a.k = b.k /\ a.name = b.name /\ a.flag = b.flag
             /\ a.num = b.num /\ a.data = b.data
             /\ Len(a.props) = Len(b.props) /\ Len(a.dense) = Len(b.dense)
             /\ \A i \in 1..Len(a.props) :
                  /\ a.props[i][1] = b.props[i][1]
                  /\ SameValue(h, a.props[i][2], g, b.props[i][2], depth - 1)
             /\ \A i \in 1..Len(a.dense) :
                  SameValue(h, a.dense[i], g, b.dense[i], depth - 1)

\* the packet was encoded and its bytes were not changed on the way
PacketIntact ==
  wire = "encoded" /\ pc \in {"packetEncoded", "packetDecoded", "packetDecodeError",
                              "packetReencoded", "packetReencodeError"}

\* C11: every amf.encode call and every header value and message body of
\* encodePacket and decodePacket starts with empty AMF3 string, object and
\* trait tables: the first occurrence of a string or object in a call or
\* section is written inline, two sections with the same value have the same
\* bytes, and a reference read in a section resolves to a value of that
\* section, so every section is decoded to the value that was encoded.
C11_FreshTables ==
  /\ (wire = "encoded" /\ pc \in {"encoded", "encoded0"}) => FirstInline(winfo.log, buffer)
  /\ pc \in {"packetEncoded", "packetEncodeError"} =>
       \A i \in 1..Len(encoded.log) :
         /\ encoded.log[i].err = "" =>
              FirstInline(encoded.log[i].info.log, encoded.log[i].bytes)
         /\ \A j \in 1..Len(encoded.log) :
              (SectionValue(i) = SectionValue(j) /\ SectionEncoding(i) = SectionEncoding(j))
                => encoded.log[i].bytes = encoded.log[j].bytes
  /\ (PacketIntact /\ pc = "packetDecoded") =>
       /\ Len(decoded.sections) = Len(encoded.log)
       /\ \A i \in 1..Len(decoded.sections) :
            SameValue(heap, SectionValue(i), decoded.heap, decoded.sections[i].value,
                      Len(heap))

\* a packet with an AMF3 header and two equal AMF3 bodies, each of which
\* repeats strings of the section before it, was encoded and decoded
C11_Witness ==
  /\ PacketIntact /\ pc = "packetDecoded"
  /\ Len(encoded.log) = 3
  /\ SectionValue(1) = Ref(3) /\ SectionValue(2) = Ref(1) /\ SectionValue(3) = Ref(1)
  /\ encoded.log[2].bytes = encoded.log[3].bytes
  /\ \E j \in 1..Len(encoded.log[3].info.log) :
       /\ encoded.log[3].info.log[j].ev = "string"
       /\ readU29(encoded.log[3].bytes, encoded.log[3].info.log[j].at).value % 2 = 0
  /\ decoded.sections[3].value # decoded.sections[2].value

\* decodePacket has returned or thrown
PacketDecodeDone == pc \in {"packetDecoded", "packetDecodeError"}

\* C14: for every header and message decodePacket decodes one value that
\* starts at valueStart and then sets its cursor to valueStart + length when
\* the length field is not negative, skipping the bytes that are left in the
\* declared window, and to valueStart + the bytes the value consumed when
\* the length field is negative; bytes added to a window and an unknown
\* length change neither the values nor the success of the decode.
C14_CursorAfterValue ==
  PacketDecodeDone =>
    /\ \A i \in 1..Len(decoded.sections) :
         LET s == decoded.sections[i]
         IN /\ s.after = IF s.length >= 0 THEN s.valueOffset + s.length
                         ELSE s.valueOffset + s.consumed
            /\ s.consumed = encoded.log[i].length
            /\ s.length \in {encoded.log[i].length + n : n \in 0..MaxPad} \cup {-1}
            /\ SameValue(heap, SectionValue(i), decoded.heap, s.value, Len(heap))
            /\ i < Len(decoded.sections) => decoded.sections[i + 1].valueOffset > s.after
    /\ pc = "packetDecoded" =>
         /\ Len(decoded.sections) = Len(encoded.log)
         /\ decoded.byteLength = Len(buffer)
    /\ (pc = "packetDecodeError" /\ wire \in {"padded", "sentinel"}) =>
         decodePacket(slice(encoded)).err # ""

\* a packet was decoded in which the window of a section that is not the
\* last one holds bytes after its value
C14_Witness ==
  /\ pc = "packetDecoded" /\ wire = "padded"
  /\ \E i \in 1..(Len(decoded.sections) - 1) :
       /\ decoded.sections[i].length = decoded.sections[i].consumed + MaxPad
       /\ decoded.sections[i].after = decoded.sections[i].valueOffset
                                        + decoded.sections[i].consumed + MaxPad
       /\ decoded.sections[i + 1].value = SectionValue(i + 1)

\* a packet was decoded in which the length of a section is unknown
SentinelDecoded ==
  /\ pc = "packetDecoded" /\ wire = "sentinel"
  /\ \E i \in 1..(Len(decoded.sections) - 1) :
       /\ decoded.sections[i].length = -1
       /\ decoded.sections[i].after
            = decoded.sections[i].valueOffset + decoded.sections[i].consumed

\* C15: for every packet that encodePacket encodes, decodePacket of the
\* encoded bytes returns a byteLength equal to the number of those bytes.
C15_ByteLengthIsEncodedLength ==
  (PacketIntact /\ PacketDecodeDone) =>
    /\ pc = "packetDecoded"
    /\ decoded.byteLength = Len(buffer)

\* the packet that decodePacket returned was encoded again, or encodePacket
\* has thrown
PacketReencodeDone == pc \in {"packetReencoded", "packetReencodeError"}

\* the bytes encodePacket returned are all the bytes it wrote
WellFormed == PacketIntact /\ encoded.offset <= encoded.cap

\* C16: for a well-formed packet b with non-negative length fields, also
\* one whose message bodies are AMF3 values behind the AVMPlus marker,
\* encodePacket(decodePacket(b)) gives the bytes of b.
C16_ReencodeGivesSameBytes ==
  (WellFormed /\ PacketReencodeDone) =>
    /\ pc = "packetReencoded"
    /\ slice(reencoded) = buffer

\* a packet in which every message body carries the AMF3 marker, made with
\* createAmf3Object
Amf3Packet ==
  /\ thePacket.messages # <<>>
  /\ \A i \in 1..Len(thePacket.messages) :
       /\ thePacket.messages[i].body.t = "ref"
       /\ Amf3Flag(heap[thePacket.messages[i].body.n])
       /\ thePacket.messages[i].objectEncoding = 0

\* a header value that is written with AMF0 rules only
PlainAmf0(v) == v.t # "ref" \/ ~Amf3Flag(heap[v.n])

C18_LengthFieldMatchesBytes ==
  (pc = "packetEncoded" /\ wire = "encoded") =>
    \A i \in 1..Len(encoded.log) :
      LET section == encoded.log[i]
      IN /\ section.at <= Len(buffer)
         /\ Int32At(buffer, section.at - 4) = section.length
         /\ section.at + section.length <= Len(buffer)
         /\ Bytes(buffer, section.at, section.at + section.length) = section.bytes

\* encodePacket has returned or thrown
PacketEncodeDone == pc \in {"packetEncoded", "packetEncodeError"}

\* the hard ceiling of the scratch buffer of encodeValue
Ceiling == 16 * 1024 * 1024

\* C19: when the encoding of a header or message value overflows the
\* scratch buffer, encodeValue retries with doubled capacity up to the
\* ceiling of 16 MiB: for every starting sectionSize no attempt is made
\* with a scratch buffer larger than 16 MiB, and an overflow at the ceiling
\* is raised as an error.
C19_RetryCeiling ==
  PacketEncodeDone =>
    \A i \in 1..Len(encoded.log) :
      LET section == encoded.log[i]
      IN /\ \A k \in 1..Len(section.attempts) : section.attempts[k] <= Ceiling
         /\ \A k \in 1..(Len(section.attempts) - 1) :
              section.attempts[k + 1] = 2 * section.attempts[k]
         /\ section.err # "" => (pc = "packetEncodeError" /\ encoded.err = section.err)

\* C20: decoding an AMF3 object whose trait has the externalizable bit set
\* (no reader can be registered for its class) fails with an error: no
\* object is returned and the decode does not go on.
C20_ExternalizableFails ==
  (/\ Intact
   /\ pc \in {"decoded", "decodeError"}
   /\ \E i \in 1..Len(rinfo.amf3TraitReferences) :
        rinfo.amf3TraitReferences[i].isExternalizable)
    => pc = "decodeError"

\* an array was given to amf.encode and the call, or the amf.decode of its
\* bytes, has ended
ArrayDone ==
  /\ heap # <<>> /\ value = Ref(1) /\ heap[1].k = "array"
  /\ wire \in {"none", "encoded"}
  /\ pc \in {"encodeError", "decoded", "decodeError"}

\* the decoded array has the length, the elements and every string-keyed
\* property of the array that was encoded
ArrayKept ==
  /\ pc = "decoded" /\ rinfo.val.t = "ref"
  /\ rinfo.heap[rinfo.val.n].k = "array"
  /\ rinfo.heap[rinfo.val.n].dense = heap[1].dense
  /\ \A i \in 1..Len(heap[1].props) :
       \E j \in 1..Len(rinfo.heap[rinfo.val.n].props) :
         rinfo.heap[rinfo.val.n].props[j] = heap[1].props[i]

\* C21: an array with dense elements and own string-keyed properties comes
\* back from amf.decode(amf.encode(arr, {objectEncoding: 3}),
\* {objectEncoding: 3}) with the same length, the same element at every index
\* and the same value under every string key.
C21_ArrayRoundTrip == ArrayDone => ArrayKept

\* the string keys that parseInt does not place below the length
PlainKeys ==
  \A i \in 1..Len(heap[1].props) :
    /\ heap[1].props[i][1] # <<>>
    /\ ~(parseInt(heap[1].props[i][1]) >= 0
         /\ parseInt(heap[1].props[i][1]) < Len(heap[1].dense))

\* the round trip holds for the arrays whose keys are all kept by the writer
ArrayRoundTrip_plainKeys == (ArrayDone /\ PlainKeys) => ArrayKept

\* amf.decode has ended on the bytes of a peer's array
PeerArrayDone == wire = "peer" /\ pc \in {"decoded", "decodeError"}

\* C22: decoding an inline AMF3 array with declared dense length n reads the
\* associative pairs up to the empty key and then n dense values, which are
\* at the indices 0..n-1 in wire order; a key that reads as a non-negative
\* integer below n is a named property and moves or replaces no dense value.
C22_DenseAtIndices ==
  PeerArrayDone =>
    /\ pc = "decoded" /\ rinfo.val.t = "ref"
    /\ rinfo.offset = Len(buffer)
    /\ rinfo.heap[rinfo.val.n].dense = heap[1].dense
    /\ rinfo.heap[rinfo.val.n].props = heap[1].props

\* an associative key of the array in the buffer reads as an integer
HasIndexKey ==
  \E i \in 1..Len(heap[1].props) : parseInt(heap[1].props[i][1]) >= 0

\* the arrays without such a key are decoded as the claim says
DenseAtIndices_plainKeys ==
  (PeerArrayDone /\ ~HasIndexKey) => (rinfo.heap = heap /\ rinfo.val = value)

\* a Date was given to amf.encode without options and the call, or the
\* amf.decode of its bytes, has ended
Amf0DateDone ==
  /\ heap # <<>> /\ value = Ref(1) /\ heap[1].k = "date"
  /\ wire \in {"none", "encoded"}
  /\ pc \in {"encodeError0", "encoded0", "decoded0", "decodeError0"}

\* C23: a Date encoded in AMF0 mode is the Date marker 0x0B, the 8 bytes of
\* its milliseconds (big-endian double) and a zero 2-byte time zone, and
\* decoding those bytes in AMF0 mode gives a Date with the same milliseconds.
C23_Amf0Date ==
  Amf0DateDone =>
    /\ pc \in {"encoded0", "decoded0"}
    /\ buffer = <<amf0Types_kDateType>> \o DoubleBytes(heap[1].num) \o <<0, 0>>
    /\ pc = "decoded0" =>
         /\ rinfo.val.t = "ref"
         /\ rinfo.heap[rinfo.val.n].k = "date"
         /\ rinfo.heap[rinfo.val.n].num = heap[1].num

\* what the code does with a Date in AMF0 mode: an empty anonymous object
Amf0Date_isEmptyObject ==
  Amf0DateDone =>
    /\ pc \in {"encoded0", "decoded0"}
    /\ buffer = <<amf0Types_kObjectType, 0, 0, amf0Types_kObjectEndType>>
    /\ pc = "decoded0" => rinfo.heap[rinfo.val.n] = ObjectNode(<<>>, <<>>)

\* write() has returned
Written == pc = "written"

\* the bytes of the buffer that the call has set, from the start offset 0
BytesWritten == Len(winfo.buf)

\* C24: a write(buffer, value, info) call that returns gives back the number
\* of bytes it wrote for the value, nested values included; info.byteLength
\* is that number and info.offset has advanced by it (1 byte for AMF3 null,
\* true and false; marker and U29 for an integer; marker, header and UTF-8
\* bytes for a string).
C24_WriteReturnsBytesWritten ==
  Written =>
    /\ winfo.byteLength = BytesWritten
    /\ winfo.offset = BytesWritten
    /\ (winfo.version = 3 /\ value.t \in {"null", "boolean"}) => winfo.byteLength = 1
    /\ (winfo.version = 3 /\ IsNumberIn(0, 127)) => winfo.byteLength = 2
    /\ (winfo.version = 3 /\ value.t = "string") =>
         winfo.byteLength = 2 + Len(Utf8(value.s))

\* the count that the call returns is the advance of info.offset, and it is
\* the number of bytes written whenever it is not beyond the buffer
WriteAccounting ==
  Written =>
    /\ winfo.byteLength = winfo.offset
    /\ winfo.offset <= winfo.cap => winfo.byteLength = BytesWritten

\* the string reference tables of the encoder and of the decoder. Both only
\* grow, so what they hold after a call is what they held at any point of it.
StringTables == {winfo.amf3StringReferences, rinfo.amf3StringReferences}

\* C25: at every point of every AMF3 encode and decode the string reference
\* table holds no empty string: neither the encoder nor the decoder appends
\* it.
C25_NoEmptyStringInTable ==
  \A table \in StringTables : \A i \in 1..Len(table) : table[i] # <<>>

\* the tables hold no empty string as long as the decoder is given the
\* bytes of an encoder whole
NoEmptyString_wholeBytes ==
  wire \notin {"truncated", "corrupted"} => C25_NoEmptyStringInTable


(***************************************************************************)
(* C26: an encode error that is not exhaustion of the buffer is thrown to  *)
(* the caller of encodePacket on the first attempt of encodeValue: a       *)
(* section that failed with another error than the RangeError of a Buffer  *)
(* write was tried with one scratch buffer only.                           *)
(***************************************************************************)
\* the sections of the packet that encodePacket gave up on
FailedSections ==
  {i \in 1..Len(encoded.log) : pc = "packetEncodeError" /\ encoded.log[i].err # ""}

C26_EncodeErrorNotRetried ==
  \A i \in FailedSections :
     encoded.log[i].err # "out of range" => Len(encoded.log[i].attempts) = 1

\* what the code does with 'Integer out of range': the message matches
\* /out of range/i, so the value is tried again with twice the room until
\* the buffer has 16 MiB or more
IntegerErrorRetried ==
  \A i \in FailedSections :
     encoded.log[i].err = "Integer out of range" =>
       /\ encoded.log[i].attempts[Len(encoded.log[i].attempts)] >= 16 * 1024 * 1024
       /\ \A k \in 1..(Len(encoded.log[i].attempts) - 1) :
            /\ encoded.log[i].attempts[k] < 16 * 1024 * 1024
            /\ encoded.log[i].attempts[k + 1] = 2 * encoded.log[i].attempts[k]


(***************************************************************************)
(* C27: for a message written by write() in AMF3 mode and read back by     *)
(* read(), the reader's string table and object table hold the entries of  *)
(* the writer's tables in the same order at the same point of the byte     *)
(* stream: where the reader stops, and at every reference on the way. The  *)
(* k-th reference the writer wrote finds the reader's table as long as the *)
(* writer's was, and its index resolves to the string or the object the    *)
(* writer referred to.                                                     *)
(***************************************************************************)
\* the number of entries of the writer's table when its cursor was at p:
\* the strings or complex values whose first occurrence starts before p
TableLengthAt(events, p) ==
  Cardinality({u \in {winfo.log[i].v : i \in events} :
                 winfo.log[FirstOf(events, u)].at < p})

\* the references the writer wrote before p: the occurrences after the first
ReferencesWritten(events, p) ==
  {j \in events : j # FirstOf(events, winfo.log[j].v) /\ winfo.log[j].at < p}

\* the references the reader resolved in one table, in the order it met them
ReferencesRead(kind) == SelectSeq(rinfo.log, LAMBDA e : e.ev = kind)

ReferencesAgree(events, kind) ==
  /\ Len(ReferencesRead(kind)) = Cardinality(ReferencesWritten(events, rinfo.offset))
  /\ \A j \in ReferencesWritten(events, rinfo.offset) :
       LET e == ReferencesRead(kind)[
                  Cardinality(ReferencesWritten(events, winfo.log[j].at + 1))]
       IN /\ e.len = TableLengthAt(events, winfo.log[j].at)
          /\ e.idx = PositionOf(events, winfo.log[j].v)
          /\ e.v = Twin(winfo.log[j].v)

TablesAgree ==
  /\ rinfo.amf3StringReferences
       = SubSeq(winfo.amf3StringReferences, 1, TableLengthAt(StringEvents, rinfo.offset))
  /\ Len(rinfo.amf3ObjectReferences) = TableLengthAt(ValueEvents, rinfo.offset)
  /\ \A i \in 1..Len(rinfo.amf3ObjectReferences) :
       /\ rinfo.heap[rinfo.amf3ObjectReferences[i]].k
            = heap[winfo.amf3ObjectReferences[i]].k
       /\ rinfo.heap[rinfo.amf3ObjectReferences[i]].name
            = heap[winfo.amf3ObjectReferences[i]].name

C27_TablesInStep ==
  (Intact /\ pc \in {"decoded", "decodeError"}) =>
    /\ pc = "decoded"
    /\ TablesAgree
    /\ ReferencesAgree(StringEvents, "string")
    /\ ReferencesAgree(ValueEvents, "object")

\* a message with two string references and two object references, read to
\* its end with two entries or more in each table
C27_Witness ==
  /\ pc = "decoded" /\ wire = "encoded" /\ rinfo.offset = Len(buffer)
  /\ Len(rinfo.amf3StringReferences) >= 2
  /\ Len(rinfo.amf3ObjectReferences) >= 2
  /\ Cardinality(ReferencesWritten(StringEvents, rinfo.offset)) >= 2
  /\ Cardinality(ReferencesWritten(ValueEvents, rinfo.offset)) >= 2
  /\ Len(ReferencesRead("string")) >= 2
  /\ Len(ReferencesRead("object")) >= 2


(***************************************************************************)
(* C28: AMF3Decoder.readValue appends an inline Array to objectRefs before *)
(* it reads any of its elements: the array that is the root of a message   *)
(* is entry 0 of objectRefs, every complex value created while an array is *)
(* filled has a larger index than the array, and an element that is a      *)
(* reference to the array itself is that array.                            *)
(***************************************************************************)
\* readValue has returned an array for the bytes that amf.encode wrote
RootArrayRead ==
  /\ pc = "valueRead" /\ rinfo.val.t = "ref"
  /\ rinfo.heap[rinfo.val.n].k = "array"

\* the members of an object of the decoder's heap
Members(node) ==
  {node.dense[i] : i \in 1..Len(node.dense)} \cup {node.props[i][2] : i \in 1..Len(node.props)}

\* the objects that were created after the array while its dense part was
\* filled
NestedIn(id) == {v \in Members(rinfo.heap[id]) : v.t = "ref" /\ v.n > id}

\* the inputs whose root array holds itself as its first element
HoldsItself ==
  /\ value.t = "ref" /\ heap[value.n].k = "array"
  /\ heap[value.n].dense # <<>> /\ heap[value.n].dense[1] = value

C28_ArrayPushedFirst ==
  /\ RootArrayRead => IndexOf(rinfo.objectRefs, rinfo.val.n) = 0
  /\ pc = "valueRead" =>
       \A id \in 1..Len(rinfo.heap) :
         rinfo.heap[id].k = "array" =>
           \A v \in NestedIn(id) :
             IndexOf(rinfo.objectRefs, id) < IndexOf(rinfo.objectRefs, v.n)
  /\ (RootArrayRead /\ wire = "encoded" /\ HoldsItself) =>
       rinfo.heap[rinfo.val.n].dense[1] = rinfo.val

\* what the code does: objectRefs.push(arr) is the last statement of
\* _readArray, so the root array is the last entry of the table
ArrayPushedLast ==
  RootArrayRead => IndexOf(rinfo.objectRefs, rinfo.val.n) = Len(rinfo.objectRefs) - 1

\* _readObjectWithTrait pushes the object before it reads the fields
ObjectPushedFirst ==
  (pc = "valueRead" /\ rinfo.val.t = "ref" /\ rinfo.heap[rinfo.val.n].k = "object") =>
    IndexOf(rinfo.objectRefs, rinfo.val.n) = 0


(***************************************************************************)
(* C29: for every value and every sectionSize the retry loop of            *)
(* encodeValue terminates: after finitely many attempts, each with a       *)
(* strictly larger scratch buffer than the one before, it returns the      *)
(* encoded bytes or throws.                                                *)
(***************************************************************************)
\* the sizes of the buffers that were allocated grow strictly
StrictlyLarger(attempts) ==
  \A k \in 1..(Len(attempts) - 1) : attempts[k] < attempts[k + 1]

\* encodeValue has returned or thrown
EncodeValueDone ==
  /\ pc \in {"valueReturned", "valueThrown"}
  /\ Len(encoded.attempts) >= 1
  /\ StrictlyLarger(encoded.attempts)
  /\ pc = "valueReturned" => encoded.err = "" /\ encoded.bytes = slice(winfo)
  /\ pc = "valueThrown" => encoded.err # ""

C29_RetryTerminates == <>EncodeValueDone

\* a value of more than 6 bytes with sectionSize 3: the third buffer holds it
C29_Witness ==
  /\ pc = "valueReturned"
  /\ theOptions.sectionSize = 3
  /\ encoded.attempts = <<3, 6, 12>>
  /\ Len(encoded.bytes) > 6

\* the steps of the loop give what encodeValue gives as a function
LoopIsEncodeValue ==
  pc \in {"valueReturned", "valueThrown"} =>
    /\ encoded.attempts
         = encodeValue(WriterHeap(heap), value, thePacket.messages[1].objectEncoding,
                       theOptions.sectionSize).attempts
    /\ encoded.bytes
         = encodeValue(WriterHeap(heap), value, thePacket.messages[1].objectEncoding,
                       theOptions.sectionSize).bytes
    /\ encoded.err
         = encodeValue(WriterHeap(heap), value, thePacket.messages[1].objectEncoding,
                       theOptions.sectionSize).err

\* while the loop runs the sizes grow and stay below twice the ceiling
LoopSizes ==
  pc = "attempt" =>
    /\ StrictlyLarger(Append(encoded.attempts, encoded.size))
    /\ encoded.size > 0 /\ encoded.size < 32 * 1024 * 1024 + 1
    /\ Len(encoded.attempts) < 25


(***************************************************************************)
(* C30: when decodePacket returns, the byteLength it reports is at most    *)
(* the number of bytes between the start offset and the end of the buffer, *)
(* and after each header and message the cursor is not before the end of   *)
(* the value that was decoded for it.                                      *)
(***************************************************************************)
C30_CursorWithinBuffer ==
  pc = "packetDecoded" =>
    /\ decoded.byteLength <= Len(buffer)
    /\ \A i \in 1..Len(decoded.sections) :
         decoded.sections[i].after
           >= decoded.sections[i].valueOffset + decoded.sections[i].consumed

\* the two parts hold for the packets whose length fields are not smaller
\* than the value and count only bytes that the buffer holds
CursorWithinBuffer_honestLengths ==
  wire \in {"encoded", "padded", "sentinel"} => C30_CursorWithinBuffer

\* what the code does with a length field that is not negative: the cursor
\* is the start of the value plus the field, whatever the value consumed and
\* wherever the buffer ends
CursorFollowsLengthField ==
  pc = "packetDecoded" =>
    /\ \A i \in 1..Len(decoded.sections) :
         decoded.sections[i].length >= 0 =>
           decoded.sections[i].after
             = decoded.sections[i].valueOffset + decoded.sections[i].length
    /\ decoded.sections # <<>> =>
         decoded.byteLength = decoded.sections[Len(decoded.sections)].after

====
